---- MODULE Spec2Model ----
(***************************************************************************)
(* Model of the incremental acquisition-and-extraction pipeline of         *)
(* SRA_fetch_1LLM_improved.py: the download worker thread                  *)
(* (start_streaming_download.worker), the corpus merger                    *)
(* (incremental_merge_from_temp), the tailing reader                       *)
(* (read_runinfo_batches) and the per-keyword consumer                     *)
(* (stream_process_keyword).                                               *)
(*                                                                         *)
(* Files are sequences of lines.  A line is a record                       *)
(*   [kind, id, strat, shape]                                              *)
(* kind  "hdr"  a CSV header row (shape says which columns it has)         *)
(*       "row"  a runinfo data row: Experiment = id, LibraryStrategy=strat *)
(*       "xml_open" / "xml_end"  a line starting with '<?xml' /            *)
(*                               '</eFetchResult>'                         *)
(* An identifier is a record [pfx, num, err]: its three-letter prefix, its *)
(* digits, and whether its text contains one of the error markers that     *)
(* load_already_processed_samples looks for.                               *)
(* efetch writes whole lines; file sizes are in bytes.                     *)
(***************************************************************************)
EXTENDS Integers, Sequences, FiniteSets, TLC

\* ------------------------------------------------------------------ bounds
\* Most lines efetch writes into the scratch file in one run.
MaxScratch == 3
\* Number of 2-second polls of the worker that fit into download_timeout
\* (150 in the source: 300 s / 2 s), scaled down.
MaxPolls == 2
\* batch_size handed to read_runinfo_batches (BATCH_SIZE = 10 in the source).
BatchSize == 2

\* MAX_NO_CHANGE_CYCLES of read_runinfo_batches (10 in the source), scaled down:
\* the number of polls without growth after which the reader looks at the thread.
MAX_NO_CHANGE_CYCLES == 1

\* One-second polls read_runinfo_batches waits for the corpus file to appear
\* (120 in the source), scaled down.
MaxWaitSeconds == 1

\* Most lines of the scratch file when the merger is called directly.
MaxMergeScratch == 3

\* Samples one SimpleLLMProcessor is handed in a row.
MaxSamples == 3

\* Samples of one study after which get_llm_for_study creates a fresh backend
\* instance (30 in the source), scaled down.
RefreshEvery == 2

\* Keywords of a run of main, and identifiers the reader yields per keyword.
NumKeywords == 3
IdsPerKeyword == 2

\* ------------------------------------------------------- program constants
MergeSizeThreshold == 100
GrowthThreshold == 10000
IncrementalLineLimit == 1000
RETRY_ATTEMPTS == 3
MaxTokens == 5

\* Direct calls of get_llm_for_study in a row.
MaxStudyCalls == 3
MaxPoolIds == 3
MaxWorkers == 2
NumPoolKeywords == 2
MaxRuns == 2
NumRunKeywords == 2

AccessionPrefixes == {"SRX", "ERX", "DRX"}

\* The strategies of EXCLUDED_LIBRARY_STRATEGIES (the model's rows use WGA).
EXCLUDED_LIBRARY_STRATEGIES ==
    {"WGA", "CLONE", "POOLCLONE", "CLONEEND", "FINISHING", "Synthetic-Long-Read",
     "FAIRE-seq", "SELEX", "RIP-Seq", "ChIA-PET", "MNase-Seq",
     "DNase-Hypersensitivity", "EST", "FL-cDNA", "CTS", "MRE-Seq", "MeDIP-Seq",
     "MBD-Seq", "Tn-Seq", "VALIDATION", "OTHER"}

\* ------------------------------------------------------------------- lines
Id(p, n) == [pfx |-> p, num |-> n, err |-> FALSE]
NoId == [pfx |-> "", num |-> 0, err |-> FALSE]

Hdr(s) == [kind |-> "hdr", id |-> NoId, strat |-> "", shape |-> s]
Row(i, st, s) == [kind |-> "row", id |-> i, strat |-> st, shape |-> s]
XmlOpen == [kind |-> "xml_open", id |-> NoId, strat |-> "", shape |-> ""]
XmlEnd == [kind |-> "xml_end", id |-> NoId, strat |-> "", shape |-> ""]

\* Header shapes: "std" is the 47-column runinfo header, "nostrat" the same
\* without the LibraryStrategy column, "short" the two-column header
\* Experiment,LibraryStrategy.  A data row has the shape of its header.
Formats == {"std", "nostrat", "short"}

\* srx_id.startswith(('SRX', 'ERX', 'DRX'))
ValidPrefix(i) == i.pfx \in AccessionPrefixes

\* 'Experiment' in header
HasExperiment(l) == l.kind = "hdr"
\* 'LibraryStrategy' in header
HasLibraryStrategy(l) == l.kind = "hdr" /\ l.shape # "nostrat"

\* len(row) > 10: the line has more than ten columns
Wide(l) == l.kind \in {"hdr", "row"} /\ l.shape # "short"

\* Bytes of one line with its terminator: the std header literal has 519
\* characters; a data row under a wide header is taken to be 10000 bytes, so
\* that the header and one row exceed the worker's 10000-byte growth threshold
\* and one more row alone does not; the rows under the short header are of the
\* form SRX1,RNA-Seq.
LineLen(l) ==
    CASE l.kind = "hdr" ->
           (CASE l.shape = "std" -> 520 [] l.shape = "nostrat" -> 504 [] OTHER -> 27)
      [] l.kind = "row" -> (IF l.shape = "short" THEN 13 ELSE 10000)
      [] l.kind = "xml_open" -> 39
      [] OTHER -> 16

\* os.path.getsize
RECURSIVE Size(_)
Size(f) == IF f = <<>> THEN 0 ELSE LineLen(Head(f)) + Size(Tail(f))

\* f.seek(skip_bytes): the lines that start at or after byte skip_bytes
RECURSIVE LinesFrom(_, _)
LinesFrom(f, skip) ==
    IF f = <<>> \/ skip <= 0 THEN f
    ELSE LinesFrom(Tail(f), skip - LineLen(Head(f)))

FirstN(s, n) == SubSeq(s, 1, IF Len(s) < n THEN Len(s) ELSE n)

\* ------------------------------------------- incremental_merge_from_temp
\* existing_srx_ids: rebuilt from the main file on every call, and only when
\* the file is larger than 100 bytes.
existing_srx_ids(main, mainExists) ==
    IF mainExists /\ Size(main) > MergeSizeThreshold
          /\ Len(main) >= 1 /\ HasExperiment(main[1])
    THEN {main[k].id : k \in {j \in 2..Len(main) :
                                 main[j].kind = "row" /\ ValidPrefix(main[j].id)}}
    ELSE {}

\* final_merge: the XML filter over the whole content
RECURSIVE clean_lines(_, _)
clean_lines(ls, in_xml_block) ==
    IF ls = <<>> THEN <<>>
    ELSE LET l == Head(ls) IN
         IF l.kind = "xml_open" THEN clean_lines(Tail(ls), TRUE)
         ELSE IF in_xml_block /\ l.kind = "xml_end" THEN clean_lines(Tail(ls), FALSE)
         ELSE IF ~in_xml_block THEN <<l>> \o clean_lines(Tail(ls), FALSE)
         ELSE clean_lines(Tail(ls), TRUE)

\* final_merge: the loop over the rows after the header; the result is the
\* list new_samples.  existing is existing_srx_ids as the loop updates it.
RECURSIVE FinalRows(_, _, _)
FinalRows(ls, header_row, existing) ==
    IF ls = <<>> THEN <<>>
    ELSE LET l == Head(ls) IN
         IF l.kind = "row" /\ l.id \notin existing /\ ValidPrefix(l.id)
            /\ ~(HasLibraryStrategy(header_row)
                 /\ l.strat \in EXCLUDED_LIBRARY_STRATEGIES)
         THEN <<l>> \o FinalRows(Tail(ls), header_row, existing \cup {l.id})
         ELSE FinalRows(Tail(ls), header_row, existing)

\* incremental mode: the line loop.  hdr is <<>> while header_row is None and
\* <<header_row>> afterwards; the result is [hdr, new].
RECURSIVE IncrRows(_, _, _)
IncrRows(ls, hdr, existing) ==
    IF ls = <<>> THEN [hdr |-> hdr, new |-> <<>>]
    ELSE LET l == Head(ls) IN
         IF l.kind # "xml_open" /\ Wide(l)
         THEN IF hdr = <<>> /\ HasExperiment(l)
              THEN IncrRows(Tail(ls), <<l>>, existing)
              ELSE IF hdr # <<>> /\ l.kind = "row"
                      /\ l.id \notin existing /\ ValidPrefix(l.id)
              THEN LET r == IncrRows(Tail(ls), hdr, existing \cup {l.id})
                   IN [hdr |-> r.hdr, new |-> <<l>> \o r.new]
              ELSE IncrRows(Tail(ls), hdr, existing)
         ELSE IncrRows(Tail(ls), hdr, existing)

\* What one call collects: [hdr, new] (header_row and new_samples)
Collected(temp, main, mainExists, skip_bytes, final_merge) ==
    LET existing == existing_srx_ids(main, mainExists)
        content == LinesFrom(temp, skip_bytes)
    IN IF final_merge
       THEN LET clean == clean_lines(content, FALSE)
            IN IF clean # <<>> /\ HasExperiment(clean[1])
               THEN [hdr |-> <<clean[1]>>,
                     new |-> FinalRows(Tail(clean), clean[1], existing)]
               ELSE [hdr |-> IF clean = <<>> THEN <<>> ELSE <<clean[1]>>,
                     new |-> <<>>]
       ELSE IncrRows(FirstN(content, IncrementalLineLimit), <<>>, existing)

\* incremental_merge_from_temp: [main, mainExists, n], the main file after
\* the call and the value returned.
\* What the write block (lines 1531-1557) can do to the corpus file: the rows
\* reach the file and the call returns their number; open() raises and nothing
\* is written; or the rows are written and flush/os.fsync raises afterwards.
\* Both exceptions end in the handler of lines 1555-1557, which returns 0.
WriteOutcomes == {"written", "open_fails", "sync_fails"}

write_new_samples(main, mainExists, c, outcome) ==
    LET file_exists == mainExists /\ Size(main) > 0
        appended == IF file_exists THEN main \o c.new ELSE c.hdr \o c.new
    IN CASE outcome = "written" ->
              [main |-> appended, mainExists |-> TRUE, n |-> Len(c.new)]
         [] outcome = "open_fails" ->
              [main |-> main, mainExists |-> mainExists, n |-> 0]
         [] outcome = "sync_fails" ->
              [main |-> appended, mainExists |-> TRUE, n |-> 0]

incremental_merge_from_temp(temp, tempExists, main, mainExists, skip_bytes, final_merge, outcome) ==
    IF ~tempExists \/ Size(temp) <= skip_bytes
    THEN [main |-> main, mainExists |-> mainExists, n |-> 0]
    ELSE LET c == Collected(temp, main, mainExists, skip_bytes, final_merge)
         IN IF c.new = <<>>
            THEN [main |-> main, mainExists |-> mainExists, n |-> 0]
            ELSE write_new_samples(main, mainExists, c, outcome)

\* ---------------------------------------------------------------- state
VARIABLES
    NCBI_TOOLS_AVAILABLE, \* the module-level flag set by configure_ncbi_tools_path
    fmt,                  \* the header shape of what efetch writes in this run
    append,               \* the append argument of stream_process_keyword
    main_file,            \* the corpus file efetched_<keyword>.csv
    main_exists,
    temp_file,            \* the scratch file <corpus>.tmp
    temp_exists,
    output_csv,           \* the result file
    output_exists,
    wpc,                  \* worker thread: position in worker()
    last_temp_size,
    polls,                \* worker: completed sleeps of the polling loop
    efetch_proc,          \* "none", "running", "exited", "killed"
    esearch_proc,
    timed_out,            \* worker: the download timeout branch was taken
    degraded,             \* worker: it found the tools unavailable and returned
    efetched,             \* every line efetch wrote in this run (history)
    tpc,                  \* read_runinfo_batches: position of the generator
    wait_time,
    processed_rows,
    last_file_size,
    no_change_cycles,
    header_processed,
    reader_pos,           \* lines the csv.reader of the current cycle has consumed
    batch,                \* the batch being built, or being consumed after a yield
    mpc,                  \* stream_process_keyword: "init", "run", "done"
    already_processed,
    yielded,              \* every identifier yielded so far, in order (history)
    fetched,              \* identifiers process_single_srx was called for (history)
    preexisting,          \* the result file as found when the keyword started (history)
    mcall,                \* merge harness: the previous call and its outcome
    spc,                  \* process_single_srx: the stage the sample is at
    sample,               \* its srx_id and what the description holds
    samples_done,         \* calls of process_single_srx that have ended
    stages,               \* the stages the current sample went through (history)
    fetch_attempts,       \* efetch_sra_experiment_xml: attempts for this sample
    infer_attempts,       \* backend invocations for this sample
    geo_summary,
    llm_response,
    parsed_data,
    records,              \* the rows written for the samples so far (history)
    current_study_id,     \* SimpleLLMProcessor._current_study_id
    current_study_llm,    \* ._current_study_llm: "none" or "llm"
    study_sample_count,   \* ._study_sample_count
    study_context,        \* ._study_context: per field the list of observed values
    study_summary,        \* ._study_summary (0: None)
    llm_instances,        \* calls of _get_fresh_llm_instance so far (history)
    hint,                 \* the study context handed to build_prompt (history)
    result,               \* what stream_process_keyword got back for the sample
    kpc,                  \* main's position in its loop over the keywords
    ki,                   \* the number of the keyword main is at (0: none yet)
    kpos,                 \* identifiers of the keyword the loop has gone through
    calls,                \* the calls of process_single_srx so far (history)
    kw_log,               \* the keywords stream_process_keyword was called for (history)
    lpc,                  \* LLMProcessor._run_llm_chain (SRA_fetch.py): its position
    purpose,              \* the purpose the chain is run for
    attempt,              \* the attempt the retry loop is at (from 0)
    response_text,        \* the backend's answer of this attempt, as tokens
    chain_result,         \* what _run_llm_chain returned
    ppc,                  \* main of SRA_fetch.py: its position
    pkw,                  \* the number of the keyword its loop is at (0: none yet)
    max_workers,          \* args.max_workers
    sra_experiment_ids_all, \* the identifiers of the keyword
    futures,              \* per submitted identifier the state of its future
    taken,                \* the futures as_completed has handed out
    batch_of_records_for_csv,
    csv_rows,             \* the result file of SRA_fetch.py, row by row
    submitted,            \* every keyword and identifier submitted so far (history)
    rpc,                  \* main over its keywords, run after run: its position
    run_no,               \* the runs of the program started so far
    args_append,          \* args.append of the current run
    rki,                  \* the keywords of the current run begun so far
    seen_ids              \* identifiers the current keyword has yielded

fileVars == <<main_file, main_exists, temp_file, temp_exists>>
outVars == <<output_csv, output_exists>>
inputVars == <<NCBI_TOOLS_AVAILABLE, fmt, append>>
workerVars == <<wpc, last_temp_size, polls, timed_out, degraded>>
procVars == <<efetch_proc, esearch_proc, efetched>>
tailerVars == <<tpc, wait_time, processed_rows, last_file_size, no_change_cycles,
                header_processed, reader_pos, batch>>
mainVars == <<mpc, already_processed, yielded, fetched, preexisting>>
sampleVars == <<spc, sample, samples_done, stages, fetch_attempts, infer_attempts,
                geo_summary, llm_response, parsed_data, records, hint, result>>
studyVars == <<current_study_id, current_study_llm, study_sample_count, study_context,
               study_summary, llm_instances>>
runVars == <<kpc, ki, kpos, calls, kw_log>>
chainVars == <<lpc, purpose, attempt, response_text, chain_result>>
poolVars == <<ppc, pkw, max_workers, sra_experiment_ids_all, futures, taken,
              batch_of_records_for_csv, csv_rows, submitted>>
resVars == <<rpc, run_no, args_append, rki, seen_ids>>
vars == <<inputVars, fileVars, outVars, workerVars, procVars, tailerVars, mainVars,
          mcall, sampleVars, studyVars, runVars, chainVars, poolVars,
          resVars>>

\* Mutant: the header the worker writes lacks the LibraryStrategy column.
StdHeader_noStrategy == Hdr("nostrat")

\* The header literal the worker writes itself (lines 1294, 1310, 1418)
StdHeader == Hdr("std")

\* Result-file lines: the OUTPUT_COLUMNS header and one record per sample
OutHdr == [kind |-> "hdr", id |-> NoId]
OutRow(i) == [kind |-> "row", id |-> i]

\* The rows efetch emits in a pipeline run: an eligible one, one with an
\* excluded strategy, a second eligible one.
ScratchRows ==
    {Row(Id("SRX", 1), "RNA-Seq", fmt), Row(Id("ERX", 2), "WGA", fmt),
     Row(Id("DRX", 4), "RNA-Seq", fmt)}

\* The scratch file ends inside an XML error document
InXml(f) ==
    \E i \in 1..Len(f) : f[i].kind = "xml_open"
                         /\ \A j \in (i+1)..Len(f) : f[j].kind # "xml_end"

\* What efetch may write next in a pipeline run: the header first, then rows,
\* with XML error documents in between, each closed before the next row.
NextLines(f) ==
    IF f = <<>> THEN {Hdr(fmt)}
    ELSE IF InXml(f) THEN {XmlEnd}
    ELSE {XmlOpen} \cup ScratchRows

\* ------------------------------------------ start_streaming_download.worker
\* Mutant: the download thread is never taken to be alive.
ThreadAlive_never == FALSE

\* download_thread.is_alive()
ThreadAlive == wpc \notin {"idle", "done"}

\* Mutant: the timeout test never fires.
TimedOut_never(n) == FALSE

\* time.time() - download_start_time > download_timeout, after n sleeps
TimedOut(n) == n > MaxPolls

\* incremental_merge_from_temp(temp_file, file_path, keyword, 0, final_merge=True)
FinalMergeResult ==
    incremental_merge_from_temp(temp_file, temp_exists, main_file, main_exists, 0, TRUE,
                                "written")

\* Mutant: the worker goes on to the tool check whether or not the file
\* could be created.
W_Create_goesOn ==
    /\ wpc = "create"
    /\ \/ /\ main_file' = <<>>
          /\ main_exists' = TRUE
       \/ UNCHANGED <<main_file, main_exists>>
    /\ wpc' = "tools"
    /\ UNCHANGED <<outVars, inputVars, procVars, tailerVars, mainVars, sampleVars,
                   studyVars, runVars, chainVars, poolVars, resVars, temp_file,
                   temp_exists, last_temp_size, polls, timed_out, degraded, mcall>>

\* lines 1277-1283: open(file_path, 'w'); return if that fails
W_Create ==
    /\ wpc = "create"
    /\ \/ /\ main_file' = <<>>
          /\ main_exists' = TRUE
          /\ wpc' = "tools"
       \/ /\ wpc' = "done"
          /\ UNCHANGED <<main_file, main_exists>>
    /\ UNCHANGED <<outVars, inputVars, procVars, tailerVars, mainVars, sampleVars,
                   studyVars, runVars, chainVars, poolVars, resVars, temp_file,
                   temp_exists, last_temp_size, polls, timed_out, degraded, mcall>>

\* lines 1286-1298: tools unavailable at startup: header only, return
W_ToolsUnavailable ==
    /\ wpc = "tools"
    /\ ~NCBI_TOOLS_AVAILABLE
    /\ main_file' = <<StdHeader>>
    /\ degraded' = TRUE
    /\ wpc' = "done"
    /\ UNCHANGED <<outVars, inputVars, procVars, tailerVars, mainVars, sampleVars,
                   studyVars, runVars, chainVars, poolVars, resVars, main_exists,
                   temp_file, temp_exists, last_temp_size, polls, timed_out, mcall>>

\* lines 1300-1314: esearch -help; on failure header only, return
W_Recheck ==
    /\ wpc = "tools"
    /\ NCBI_TOOLS_AVAILABLE
    /\ \/ /\ wpc' = "open_temp"
          /\ UNCHANGED <<main_file, degraded>>
       \/ /\ main_file' = <<StdHeader>>
          /\ degraded' = TRUE
          /\ wpc' = "done"
    /\ UNCHANGED <<outVars, inputVars, procVars, tailerVars, mainVars, sampleVars,
                   studyVars, runVars, chainVars, poolVars, resVars, main_exists,
                   temp_file, temp_exists, last_temp_size, polls, timed_out, mcall>>

\* line 1343: open(temp_file, 'w'); an exception here is caught at line 1422
W_OpenTemp ==
    /\ wpc = "open_temp"
    /\ \/ /\ temp_file' = <<>>
          /\ temp_exists' = TRUE
          /\ wpc' = "popen"
       \/ /\ wpc' = "done"
          /\ UNCHANGED <<temp_file, temp_exists>>
    /\ UNCHANGED <<outVars, inputVars, procVars, tailerVars, mainVars, sampleVars,
                   studyVars, runVars, chainVars, poolVars, resVars, main_file,
                   main_exists, last_temp_size, polls, timed_out, degraded, mcall>>

\* lines 1345-1355: both Popen calls; an exception is caught at line 1410
W_Popen ==
    /\ wpc = "popen"
    /\ \/ /\ efetch_proc' = "running"
          /\ esearch_proc' = "running"
          /\ last_temp_size' = 0
          /\ polls' = 0
          /\ wpc' = "loop"
       \/ /\ wpc' = "header"
          /\ UNCHANGED <<efetch_proc, esearch_proc, last_temp_size, polls>>
    /\ UNCHANGED <<fileVars, outVars, inputVars, tailerVars, mainVars, sampleVars,
                   studyVars, runVars, chainVars, poolVars, resVars, timed_out, degraded,
                   efetched, mcall>>

\* line 1357: while efetch_proc.poll() is None
W_LoopTest ==
    /\ wpc = "loop"
    /\ wpc' = IF efetch_proc = "running" THEN "sleep" ELSE "communicate"
    /\ UNCHANGED <<fileVars, outVars, inputVars, procVars, tailerVars, mainVars,
                   sampleVars, studyVars, runVars, chainVars, poolVars, resVars,
                   last_temp_size, polls, timed_out, degraded, mcall>>

\* lines 1358-1365: after the sleep the timeout has expired: terminate() both
\* (a process may die of it or ignore it), break
W_PollTimeout ==
    /\ wpc = "sleep"
    /\ TimedOut(polls + 1)
    /\ polls' = polls + 1
    /\ timed_out' = TRUE
    /\ efetch_proc' \in (IF efetch_proc = "running" THEN {"running", "exited"}
                         ELSE {efetch_proc})
    /\ wpc' = "communicate"
    /\ UNCHANGED <<fileVars, outVars, inputVars, tailerVars, mainVars, sampleVars,
                   studyVars, runVars, chainVars, poolVars, resVars, last_temp_size,
                   esearch_proc, degraded, efetched, mcall>>

\* lines 1358-1380: after the sleep, no timeout: the size check and, past the
\* growth threshold, an incremental merge from last_temp_size
W_Poll ==
    /\ wpc = "sleep"
    /\ ~TimedOut(polls + 1)
    /\ polls' = IF polls > MaxPolls THEN polls ELSE polls + 1  \* the counter saturates
    /\ IF temp_exists /\ Size(temp_file) > last_temp_size + GrowthThreshold
       THEN LET r == incremental_merge_from_temp(temp_file, temp_exists, main_file,
                                                 main_exists, last_temp_size, FALSE,
                                                 "written")
            IN /\ main_file' = r.main
               /\ main_exists' = r.mainExists
               /\ last_temp_size' = Size(temp_file)
       ELSE UNCHANGED <<main_file, main_exists, last_temp_size>>
    /\ wpc' = "loop"
    /\ UNCHANGED <<outVars, inputVars, procVars, tailerVars, mainVars, sampleVars,
                   studyVars, runVars, chainVars, poolVars, resVars, temp_file,
                   temp_exists, timed_out, degraded, mcall>>

\* line 1410: an exception raised inside the try block after both processes
\* were started (os.path.getsize in the polling loop, a UnicodeDecodeError of
\* communicate() on the stderr text) leaves the block: no final merge
W_PollException ==
    /\ wpc \in {"sleep", "communicate"}
    /\ wpc' = "header"
    /\ UNCHANGED <<fileVars, outVars, inputVars, procVars, tailerVars, mainVars,
                   sampleVars, studyVars, runVars, chainVars, poolVars, resVars,
                   last_temp_size, polls, timed_out, degraded, mcall>>

\* lines 1383-1385: both communicate(timeout=30) calls return: efetch has
\* exited, and esearch (whose state nothing else looks at) has exited or exits
\* within its 30 seconds
W_Communicate ==
    /\ wpc = "communicate"
    /\ efetch_proc # "running"
    /\ esearch_proc' = "exited"
    /\ wpc' = "final"
    /\ UNCHANGED <<fileVars, outVars, inputVars, tailerVars, mainVars, sampleVars,
                   studyVars, runVars, chainVars, poolVars, resVars, last_temp_size,
                   polls, efetch_proc, timed_out, degraded, efetched, mcall>>

\* lines 1386-1391: TimeoutExpired (efetch or esearch is still running after
\* 30 seconds): kill() both
W_CommunicateTimeout ==
    /\ wpc = "communicate"
    /\ efetch_proc' = IF efetch_proc = "running" THEN "killed" ELSE efetch_proc
    /\ esearch_proc' = "killed"
    /\ wpc' = "final"
    /\ UNCHANGED <<fileVars, outVars, inputVars, tailerVars, mainVars, sampleVars,
                   studyVars, runVars, chainVars, poolVars, resVars, last_temp_size,
                   polls, timed_out, degraded, efetched, mcall>>

\* lines 1393-1403: the final merge over the whole scratch file, then os.remove
W_FinalMerge ==
    /\ wpc = "final"
    /\ IF temp_exists /\ Size(temp_file) > 0
       THEN /\ main_file' = FinalMergeResult.main
            /\ main_exists' = FinalMergeResult.mainExists
            /\ temp_file' = <<>>
            /\ temp_exists' = FALSE
       ELSE UNCHANGED fileVars
    /\ wpc' = "header"
    /\ UNCHANGED <<outVars, inputVars, procVars, tailerVars, mainVars, sampleVars,
                   studyVars, runVars, chainVars, poolVars, resVars, last_temp_size,
                   polls, timed_out, degraded, mcall>>

\* lines 1413-1420: the fallback header when nothing was merged
W_EnsureHeader ==
    /\ wpc = "header"
    /\ IF ~main_exists \/ Size(main_file) = 0
       THEN /\ main_file' = <<StdHeader>>
            /\ main_exists' = TRUE
       ELSE UNCHANGED <<main_file, main_exists>>
    /\ wpc' = "done"
    /\ UNCHANGED <<outVars, inputVars, procVars, tailerVars, mainVars, sampleVars,
                   studyVars, runVars, chainVars, poolVars, resVars, temp_file,
                   temp_exists, last_temp_size, polls, timed_out, degraded, mcall>>

WorkerNext ==
    \/ W_Create \/ W_ToolsUnavailable \/ W_Recheck \/ W_OpenTemp \/ W_Popen
    \/ W_LoopTest \/ W_PollTimeout \/ W_Poll \/ W_PollException
    \/ W_Communicate \/ W_CommunicateTimeout \/ W_FinalMerge \/ W_EnsureHeader

\* ------------------------------------------------- the external processes
\* efetch writes one more line into the scratch file
EfetchWrite ==
    /\ efetch_proc = "running"
    /\ temp_exists
    /\ Len(efetched) < MaxScratch
    /\ \E l \in NextLines(temp_file) :
          /\ temp_file' = Append(temp_file, l)
          /\ efetched' = Append(efetched, l)
    /\ UNCHANGED <<outVars, inputVars, workerVars, tailerVars, mainVars, sampleVars,
                   studyVars, runVars, chainVars, poolVars, resVars, main_file,
                   main_exists, temp_exists, efetch_proc, esearch_proc, mcall>>

\* efetch exits on its own
EfetchExit ==
    /\ efetch_proc = "running"
    /\ efetch_proc' = "exited"
    /\ UNCHANGED <<fileVars, outVars, inputVars, workerVars, tailerVars, mainVars,
                   sampleVars, studyVars, runVars, chainVars, poolVars, resVars,
                   esearch_proc, efetched, mcall>>

ProcNext == EfetchWrite \/ EfetchExit

\* ------------------------------------------------------ read_runinfo_batches
\* Mutant: the library-strategy filter of the reader is dropped.
Eligible_anyStrategy(l) == l.kind = "row" /\ ValidPrefix(l.id)

\* lines 1632-1645: the row's identifier is appended to the batch
Eligible(l) ==
    /\ l.kind = "row"
    /\ ValidPrefix(l.id)
    /\ l.strat \notin EXCLUDED_LIBRARY_STRATEGIES

\* Mutant: the batch is built from the front.
AddToBatch_front(b, srx_id) == <<srx_id>> \o b

\* batch.append(srx_id) (line 1645)
AddToBatch(b, srx_id) == Append(b, srx_id)

\* Mutant: the reader gives up at the first second without the file.
WaitTimedOut_early(seconds) == seconds > 0

\* if wait_time > 120 (line 1570; the 120 is MaxWaitSeconds here)
WaitTimedOut(seconds) == seconds > MaxWaitSeconds

\* lines 1566-1588: wait for the file, one second per poll, give up after 120
\* (wait_time is not read after this loop: it is cleared on the way out).
\* The worker's first statement, the open() of line 1277, runs before the
\* first of these seconds is over: the file is missing after a sleep only when
\* that open() failed.
T_WaitFile ==
    /\ tpc = "wait"
    /\ IF main_exists
       THEN /\ tpc' = "top"
            /\ wait_time' = 0
       ELSE /\ wpc # "create"
            /\ wait_time' = wait_time + 1
            /\ tpc' = IF WaitTimedOut(wait_time + 1) THEN "gave_up" ELSE "wait"
    /\ UNCHANGED <<fileVars, outVars, inputVars, workerVars, procVars, mainVars,
                   sampleVars, studyVars, runVars, chainVars, poolVars, resVars,
                   processed_rows, last_file_size, no_change_cycles, header_processed,
                   reader_pos, batch, mcall>>

\* lines 1592-1597 and 1668-1670: the size check; without growth the counter
\* goes up and the reader sleeps two seconds
T_SizeCheck ==
    /\ tpc = "top"
    /\ IF Size(main_file) > last_file_size \/ ~header_processed
       THEN /\ last_file_size' = Size(main_file)
            /\ no_change_cycles' = 0
            /\ tpc' = "open"
       ELSE /\ no_change_cycles' = no_change_cycles + 1
            /\ tpc' = "check"
            /\ UNCHANGED last_file_size
    /\ UNCHANGED <<fileVars, outVars, inputVars, workerVars, procVars, mainVars,
                   sampleVars, studyVars, runVars, chainVars, poolVars, resVars,
                   wait_time, processed_rows, header_processed, reader_pos, batch, mcall>>

\* for _ in range(processed_rows): next(reader, None), on a reader that has
\* consumed n lines of the file f
SkipProcessed(f, n) ==
    IF n + processed_rows <= Len(f) THEN n + processed_rows ELSE Len(f)

\* lines 1599-1626: open the file with a new reader; the header is parsed once,
\* in the cycle that finds it, and only that cycle's reader consumes the header
\* line; then processed_rows lines are skipped.  StopIteration (empty file)
\* and ValueError (a column is missing) lead back to the top of the loop
\* through `continue`, past the exit check
T_Header ==
    /\ tpc = "open"
    /\ IF header_processed
       THEN /\ tpc' = "rows"
            /\ reader_pos' = SkipProcessed(main_file, 0)
            /\ UNCHANGED header_processed
       ELSE IF main_file # <<>> /\ HasExperiment(main_file[1])
               /\ HasLibraryStrategy(main_file[1])
       THEN /\ header_processed' = TRUE
            /\ reader_pos' = SkipProcessed(main_file, 1)
            /\ tpc' = "rows"
       ELSE /\ tpc' = "top"
            /\ UNCHANGED <<header_processed, reader_pos>>
    /\ batch' = <<>>
    /\ UNCHANGED <<fileVars, outVars, inputVars, workerVars, procVars, mainVars,
                   sampleVars, studyVars, runVars, chainVars, poolVars, resVars,
                   wait_time, processed_rows, last_file_size, no_change_cycles, mcall>>

\* lines 1628-1658: one step of `for row in reader`: the reader's next line
\* (which is counted as a row whatever it is), or the end of the file; a full
\* batch, or the rest at the end of the file, is yielded
T_Row ==
    /\ tpc = "rows"
    /\ IF reader_pos < Len(main_file)
       THEN LET row == main_file[reader_pos + 1]
                b == IF Eligible(row) THEN AddToBatch(batch, row.id) ELSE batch
            IN /\ processed_rows' = processed_rows + 1
               /\ reader_pos' = reader_pos + 1
               /\ batch' = b
               /\ IF Len(b) >= BatchSize
                  THEN /\ tpc' = "yield_mid"
                       /\ yielded' = yielded \o b
                  ELSE UNCHANGED <<tpc, yielded>>
       ELSE /\ UNCHANGED <<processed_rows, reader_pos, batch>>
            /\ IF batch # <<>>
               THEN /\ tpc' = "yield_end"
                    /\ yielded' = yielded \o batch
               ELSE /\ tpc' = "check"
                    /\ UNCHANGED yielded
    /\ UNCHANGED <<fileVars, outVars, inputVars, workerVars, procVars, sampleVars,
                   studyVars, runVars, chainVars, poolVars, resVars, wait_time,
                   last_file_size, no_change_cycles, header_processed, mpc,
                   already_processed, fetched, preexisting, mcall>>

\* lines 1673-1682: the exit test after the cycle (and after the sleep of a
\* cycle without growth)
T_ExitCheck ==
    /\ tpc = "check"
    /\ IF no_change_cycles > MAX_NO_CHANGE_CYCLES
       THEN IF ~ThreadAlive
            THEN /\ tpc' = "done"
                 /\ UNCHANGED no_change_cycles
            ELSE /\ no_change_cycles' = 0
                 /\ tpc' = "top"
       ELSE /\ tpc' = "top"
            /\ UNCHANGED no_change_cycles
    /\ UNCHANGED <<fileVars, outVars, inputVars, workerVars, procVars, mainVars,
                   sampleVars, studyVars, runVars, chainVars, poolVars, resVars,
                   wait_time, processed_rows, last_file_size, header_processed,
                   reader_pos, batch, mcall>>

TailerNext == T_WaitFile \/ T_SizeCheck \/ T_Header \/ T_Row \/ T_ExitCheck

\* -------------------------------------------------- stream_process_keyword
\* Mutant: the resume set is never loaded.
load_already_processed_samples_none(csv, exists) == {}

\* load_already_processed_samples: csv.DictReader takes the first line as the
\* column names; without the OUTPUT_COLUMNS header no row has a value for
\* sra_experiment_id
load_already_processed_samples(csv, exists) ==
    IF exists /\ csv # <<>> /\ csv[1] = OutHdr
    THEN {csv[k].id : k \in {j \in 2..Len(csv) :
                                /\ csv[j].kind = "row"
                                /\ ValidPrefix(csv[j].id)
                                /\ ~csv[j].id.err}}
    ELSE {}

\* lines 1703-1725: load the resume set, start the thread, open the result
\* file ('a' keeps it, 'w' truncates it and writes the header)
M_Start ==
    /\ mpc = "init"
    /\ already_processed' = IF append
                            THEN load_already_processed_samples(output_csv, output_exists)
                            ELSE {}
    /\ preexisting' = [exists |-> output_exists, csv |-> output_csv]
    /\ wpc' = "create"
    /\ output_exists' = TRUE
    /\ output_csv' = IF append THEN output_csv ELSE <<OutHdr>>
    /\ tpc' = "wait"
    /\ mpc' = "run"
    /\ UNCHANGED <<fileVars, inputVars, procVars, sampleVars, studyVars, runVars,
                   chainVars, poolVars, resVars, last_temp_size, polls, timed_out,
                   degraded, wait_time, processed_rows, last_file_size, no_change_cycles,
                   header_processed, reader_pos, batch, yielded, fetched, mcall>>

\* lines 1745-1750: the row is written when process_single_srx returned a list
RowWritten(outcome) == outcome = "row"

\* lines 1734-1759: one identifier of the yielded batch: skipped when it is in
\* the resume set, else process_single_srx returns a row, returns None (the
\* description fetch failed, line 1158) or raises; the generator is resumed
\* after the last identifier of the batch
C_Process ==
    /\ tpc \in {"yield_mid", "yield_end"}
    /\ batch # <<>>
    /\ LET srx_id == Head(batch) IN
       IF srx_id \in already_processed
       THEN UNCHANGED <<output_csv, fetched>>
       ELSE /\ fetched' = fetched \cup {srx_id}
            /\ \E outcome \in {"row", "none", "raise"} :
                  output_csv' = IF RowWritten(outcome)
                                THEN Append(output_csv, OutRow(srx_id))
                                ELSE output_csv
    /\ batch' = Tail(batch)
    /\ tpc' = IF Tail(batch) # <<>> THEN tpc
              ELSE IF tpc = "yield_mid" THEN "rows" ELSE "check"
    /\ UNCHANGED <<fileVars, inputVars, workerVars, procVars, sampleVars, studyVars,
                   runVars, chainVars, poolVars, resVars, output_exists, wait_time,
                   processed_rows, last_file_size, no_change_cycles, header_processed,
                   reader_pos, mpc, already_processed, yielded, preexisting, mcall>>

\* line 1761: the generator is exhausted; join the thread
M_Finish ==
    /\ mpc = "run"
    /\ tpc \in {"done", "gave_up"}
    /\ mpc' = "done"
    /\ UNCHANGED <<fileVars, outVars, inputVars, workerVars, procVars, tailerVars,
                   sampleVars, studyVars, runVars, chainVars, poolVars, resVars,
                   already_processed, yielded, fetched, preexisting, mcall>>

MainNext == M_Start \/ C_Process \/ M_Finish

\* -------------------------------------------------------- process_single_srx
\* One sample after the other goes through process_single_srx with one
\* SimpleLLMProcessor.  Of the eleven fields of parsed_data the model follows
\* species, sample_type, cell_line_name, is_chipseq_related_experiment and
\* scientific_sample_summary.  A
\* summary is a number: 0 is "N/A", n > 0 the summary the backend wrote for the
\* sample numbered n.  A GEO accession is a number too, 0 being "N/A".
NA == "N/A"

NoData ==
    [species |-> NA, sample_type |-> NA, cell_line_name |-> NA,
     is_chipseq_related_experiment |-> NA, scientific_sample_summary |-> 0]

\* the defaults _parse_llm_response starts from (lines 601-613): the ChIP-seq
\* field is 'no', every other field 'N/A'
ParserDefaults == [NoData EXCEPT !.is_chipseq_related_experiment = "no"]

\* A line of a backend response: whether it holds a colon, the text before the
\* first colon and the text after it.
Line(k, v) == [colon |-> TRUE, key |-> k, value |-> v]

\* key.strip().lower()
Lower(k) ==
    CASE k = "Species" -> "species"
      [] k = "Sample_type" -> "sample_type"
      [] k = "Cell_line_name" -> "cell_line_name"
      [] k = "Scientific_sample_summary" -> "scientific_sample_summary"
      [] k = "Is_chipseq_related_experiment" -> "is_chipseq_related_experiment"
      [] k = "Yes" -> "yes"
      [] k = "No" -> "no"
      [] OTHER -> k

\* SimpleLLMProcessor._parse_llm_response: the loop over the lines; found is
\* the function's result so far, the defaults at first
RECURSIVE parse_llm_response(_, _)
parse_llm_response(lines, found) ==
    IF lines = <<>> THEN found
    ELSE LET l == Head(lines)
             key == Lower(l.key)
             value == IF key = "is_chipseq_related_experiment" THEN Lower(l.value)
                      ELSE l.value
         IN IF l.colon /\ key \in DOMAIN found
            THEN parse_llm_response(Tail(lines), [found EXCEPT ![key] = value])
            ELSE parse_llm_response(Tail(lines), found)

\* What the backend may answer for the sample numbered n: the key:value lines
\* the prompt asks for (the species may be left empty after its colon), the
\* same after a line of prose, or one JSON object on a line (with or without
\* prose in front of it).  chipseq is the value of the line
\* Is_chipseq_related_experiment, "" when the answer has no such line.
Answers(n) ==
    {[form |-> "lines", prose |-> FALSE, species |-> x[1], sample_type |-> "Cell Line",
      cell_line_name |-> x[2], chipseq |-> x[3], scientific_sample_summary |-> n] :
        x \in {<<"Homo sapiens", "HeLa", "Yes">>, <<"Mus musculus", "K562", "No">>,
               <<"unknown", NA, "">>, <<NA, NA, "">>, <<"", NA, "">>}}
    \cup [form : {"lines"}, prose : {FALSE},
          species : {"Homo sapiens"}, sample_type : {"Tissue"},
          cell_line_name : {NA}, chipseq : {""}, scientific_sample_summary : {0, n}]
    \cup [form : {"lines", "json"}, prose : {TRUE},
          species : {"Homo sapiens"}, sample_type : {"Cell Line"},
          cell_line_name : {"HeLa"}, chipseq : {"Yes"}, scientific_sample_summary : {n}]
    \cup [form : {"json"}, prose : {FALSE},
          species : {"Homo sapiens"}, sample_type : {"Cell Line"},
          cell_line_name : {"HeLa"}, chipseq : {"Yes"}, scientific_sample_summary : {n}]

\* The text of an answer, line by line.  A JSON object stands on one line: the
\* text before its first colon is the prose in front of it, or {"species";
\* what follows that colon is given by the fields the object holds.
ResponseText(a) ==
    IF a.form = "lines"
    THEN (IF a.prose THEN <<Line("Sure! Here is the data", "")>> ELSE <<>>)
         \o <<Line("Species", a.species),
              Line("Sample_type", a.sample_type),
              Line("Cell_line_name", a.cell_line_name)>>
         \o (IF a.chipseq # ""
             THEN <<Line("Is_chipseq_related_experiment", a.chipseq)>> ELSE <<>>)
         \o <<Line("Scientific_sample_summary", a.scientific_sample_summary)>>
    ELSE <<Line(IF a.prose THEN "Sure! Here is the data" ELSE "{\"species\"",
                [species |-> a.species, sample_type |-> a.sample_type,
                 cell_line_name |-> a.cell_line_name,
                 is_chipseq_related_experiment |-> a.chipseq,
                 scientific_sample_summary |-> a.scientific_sample_summary])>>

\* extract_geo_accessions: the accessions the pattern search finds in the text
extract_geo_accessions(xml) == [gse |-> xml.gse, gsm |-> xml.gsm]

\* Mutant: a failed lookup hands back an error text.
fetch_geo_soft_brief_errorText(gsm_id, outcome) ==
    IF outcome = "200" THEN "text" ELSE "Error during GEO data fetching"

\* fetch_geo_soft_brief: outcome is what requests.get did ("200", another
\* status, "exception")
fetch_geo_soft_brief(gsm_id, outcome) ==
    IF gsm_id = 0 THEN NA
    ELSE IF outcome = "200" THEN "text"
    ELSE NA

NoStudy == [kind |-> "none", pfx |-> "", num |-> 0]

\* Mutant: the identifier is never cut to its leading characters.
extract_study_id_wholeId(srx_id, gse_id) ==
    IF gse_id # 0 THEN [kind |-> "gse", pfx |-> "GSE", num |-> gse_id]
    ELSE [kind |-> "srx", pfx |-> srx_id.pfx, num |-> srx_id.num]

\* SimpleLLMProcessor._extract_study_id: the GSE accession, else the first
\* eight characters of the identifier (here: all but its last digit)
extract_study_id(srx_id, gse_id) ==
    IF gse_id # 0 THEN [kind |-> "gse", pfx |-> "GSE", num |-> gse_id]
    ELSE IF ValidPrefix(srx_id)
    THEN [kind |-> "srx", pfx |-> srx_id.pfx, num |-> srx_id.num \div 10]
    ELSE [kind |-> "srx", pfx |-> srx_id.pfx, num |-> srx_id.num]

ContextFields == {"species", "sample_type", "cell_line_name"}
EmptyContext == [f \in ContextFields |-> <<>>]

\* Mutant: a new study keeps the context, the summary and the counter.
StudyChanged_never(study_id) == FALSE

\* self._current_study_id != study_id
StudyChanged(study_id) == current_study_id # study_id

\* Mutant: a session is never retired for the number of samples it served.
LargeStudy_never(count) == FALSE

\* elif self._study_sample_count >= 30 (the 30 is RefreshEvery here)
LargeStudy(count) == count >= RefreshEvery

\* SimpleLLMProcessor.get_llm_for_study (fresh_instance_per_study is True, as
\* main constructs it): the processor's fields after the call.  fresh is the
\* instance _get_fresh_llm_instance would return ("llm" or "none"); created
\* tells whether _get_fresh_llm_instance was called.
get_llm_for_study(srx_id, gse_id, fresh) ==
    LET study_id == extract_study_id(srx_id, gse_id)
        new_study == StudyChanged(study_id)
        large == ~new_study /\ LargeStudy(study_sample_count)
        need_refresh == new_study \/ large
    IN [id |-> IF need_refresh THEN study_id ELSE current_study_id,
        created |-> need_refresh,
        llm |-> IF need_refresh THEN fresh ELSE current_study_llm,
        count |-> (IF need_refresh THEN 0 ELSE study_sample_count) + 1,
        context |-> IF new_study THEN EmptyContext ELSE study_context,
        summary |-> IF new_study THEN 0 ELSE study_summary]

\* Mutant: every value handed in is appended.
update_study_context_always(ctx, key, value) == [ctx EXCEPT ![key] = Append(@, value)]

\* SimpleLLMProcessor.update_study_context (its callers never pass a
\* sequencing_technique, so the second list of lines 564-570 is not kept)
update_study_context(ctx, key, value) ==
    IF value # "" /\ value # NA /\ \A i \in 1..Len(ctx[key]) : ctx[key][i] # value
    THEN [ctx EXCEPT ![key] = Append(@, value)]
    ELSE ctx

\* Mutant: any history is taken as decisive.
SingleHistory_any(prev) == Len(prev) >= 1

\* len(prev_species) == 1 / len(prev_cell_lines) == 1
SingleHistory(prev) == Len(prev) = 1

\* Mutant: the consistency validation changes nothing.
StudyConsistency_none(pd, ctx) == pd

\* lines 1200-1221: the study consistency validation of parsed_data
StudyConsistency(pd, ctx) ==
    LET species ==
            IF /\ ctx["species"] # <<>>
               /\ pd.species # NA
               /\ SingleHistory(ctx["species"])
               /\ pd.species # ctx["species"][1]
            THEN ctx["species"][1] ELSE pd.species
        cell_line ==
            IF /\ ctx["cell_line_name"] # <<>>
               /\ pd.sample_type = "Cell Line"
               /\ SingleHistory(ctx["cell_line_name"])
               /\ pd.cell_line_name # ctx["cell_line_name"][1]
               /\ pd.cell_line_name = NA
            THEN ctx["cell_line_name"][1] ELSE pd.cell_line_name
    IN [pd EXCEPT !.species = species, !.cell_line_name = cell_line]

\* The sample being worked on before the first one is handed in
NoSample == [id |-> NoId, xml |-> [gse |-> 0, gsm |-> 0]]

\* stream_process_keyword hands the next identifier to process_single_srx.
\* The samples handed in: SRX10 and SRX11 share their leading characters,
\* SRX20 does not.  The description may name a GSE and a GSM accession.
S_Begin ==
    /\ spc = "idle"
    /\ samples_done < MaxSamples
    /\ \E id \in {Id("SRX", 10), Id("SRX", 11), Id("SRX", 20)},
          xml \in {[gse |-> 0, gsm |-> 0], [gse |-> 1, gsm |-> 1]} :
          sample' = [id |-> id, xml |-> xml]
    /\ spc' = "fetch"
    /\ stages' = <<>>
    /\ fetch_attempts' = 0
    /\ infer_attempts' = 0
    /\ geo_summary' = NA
    /\ llm_response' = <<>>
    /\ parsed_data' = NoData
    /\ hint' = EmptyContext
    /\ result' = "pending"
    /\ UNCHANGED <<fileVars, outVars, inputVars, workerVars, procVars, tailerVars,
                   mainVars, studyVars, runVars, chainVars, poolVars, resVars, mcall,
                   samples_done, records>>

\* One attempt of efetch_sra_experiment_xml: the description, a timeout or a
\* non-zero exit (caught, next attempt), or another exception (not caught).
\* Without a description process_single_srx returns None (line 1158); the
\* exception reaches stream_process_keyword, which goes on to the next id.
S_FetchAttempt ==
    /\ spc = "fetch"
    /\ fetch_attempts < RETRY_ATTEMPTS
    /\ fetch_attempts' = fetch_attempts + 1
    /\ stages' = <<"FETCH_DESCRIPTION">>
    /\ \E outcome \in {"xml", "failed", "raised"} :
          \/ /\ outcome = "xml"
             /\ spc' = "xref"
             /\ UNCHANGED <<samples_done, result>>
          \/ /\ outcome = "failed"
             /\ fetch_attempts + 1 < RETRY_ATTEMPTS
             /\ spc' = "fetch"
             /\ UNCHANGED <<samples_done, result>>
          \/ /\ outcome = "failed"
             /\ fetch_attempts + 1 >= RETRY_ATTEMPTS
             /\ spc' = "idle"
             /\ samples_done' = samples_done + 1
             /\ result' = "None"
          \/ /\ outcome = "raised"
             /\ spc' = "idle"
             /\ samples_done' = samples_done + 1
             /\ result' = "exception"
    /\ UNCHANGED <<fileVars, outVars, inputVars, workerVars, procVars, tailerVars,
                   mainVars, studyVars, runVars, chainVars, poolVars, resVars, mcall,
                   sample, infer_attempts, geo_summary, llm_response, parsed_data,
                   records, hint>>

\* lines 1160-1163: the accessions of the description and the GEO summary
S_CrossReference ==
    /\ spc = "xref"
    /\ \E outcome \in {"200", "404", "exception"} :
          geo_summary' = fetch_geo_soft_brief(extract_geo_accessions(sample.xml).gsm, outcome)
    /\ stages' = Append(stages, "CROSS_REFERENCE_LOOKUP")
    /\ spc' = "context"
    /\ UNCHANGED <<fileVars, outVars, inputVars, workerVars, procVars, tailerVars,
                   mainVars, studyVars, runVars, chainVars, poolVars, resVars, mcall,
                   sample, samples_done, fetch_attempts, infer_attempts, llm_response,
                   parsed_data, records, hint, result>>

\* lines 1169-1177: get_llm_for_study, then build_prompt with the context it
\* returned
S_ContextBuild ==
    /\ spc = "context"
    /\ \E fresh \in {"llm", "none"} :
          LET r == get_llm_for_study(sample.id, extract_geo_accessions(sample.xml).gse, fresh)
          IN /\ current_study_id' = r.id
             /\ current_study_llm' = r.llm
             /\ study_sample_count' = r.count
             /\ study_context' = r.context
             /\ study_summary' = r.summary
             /\ llm_instances' = llm_instances + (IF r.created THEN 1 ELSE 0)
             /\ hint' = r.context
    /\ stages' = Append(stages, "CONTEXT_BUILD")
    /\ spc' = "infer"
    /\ UNCHANGED <<fileVars, outVars, inputVars, workerVars, procVars, tailerVars,
                   mainVars, runVars, chainVars, poolVars, resVars, mcall, sample,
                   samples_done, fetch_attempts, infer_attempts, geo_summary,
                   llm_response, parsed_data, records, result>>

\* lines 1179-1190: one call of llm_instance.invoke; without an instance, or
\* when the call raises, llm_response is None (here: no text)
S_Infer ==
    /\ spc = "infer"
    /\ \/ /\ current_study_llm = "none"
          /\ llm_response' = <<>>
          /\ UNCHANGED infer_attempts
       \/ /\ current_study_llm = "llm"
          /\ infer_attempts' = infer_attempts + 1
          /\ \/ \E a \in Answers(sample.id.num) : llm_response' = ResponseText(a)
             \/ llm_response' = <<>>
    /\ stages' = Append(stages, "INFER")
    /\ spc' = "parse"
    /\ UNCHANGED <<fileVars, outVars, inputVars, workerVars, procVars, tailerVars,
                   mainVars, studyVars, runVars, chainVars, poolVars, resVars, mcall,
                   sample, samples_done, fetch_attempts, geo_summary, parsed_data,
                   records, hint, result>>

\* lines 1192-1199: the defaults, updated with what the parser found
S_Parse ==
    /\ spc = "parse"
    /\ parsed_data' = IF llm_response # <<>>
                      THEN parse_llm_response(llm_response, ParserDefaults)
                      ELSE NoData
    /\ stages' = Append(stages, "PARSE")
    /\ spc' = "repair"
    /\ UNCHANGED <<fileVars, outVars, inputVars, workerVars, procVars, tailerVars,
                   mainVars, studyVars, runVars, chainVars, poolVars, resVars, mcall,
                   sample, samples_done, fetch_attempts, infer_attempts, geo_summary,
                   llm_response, records, hint, result>>

\* lines 1200-1221: the consistency validation, inside "if llm_response:"
S_Repair ==
    /\ spc = "repair"
    /\ parsed_data' = IF llm_response # <<>>
                      THEN StudyConsistency(parsed_data, study_context)
                      ELSE parsed_data
    /\ stages' = Append(stages, "REPAIR")
    /\ spc' = "emit"
    /\ UNCHANGED <<fileVars, outVars, inputVars, workerVars, procVars, tailerVars,
                   mainVars, studyVars, runVars, chainVars, poolVars, resVars, mcall,
                   sample, samples_done, fetch_attempts, infer_attempts, geo_summary,
                   llm_response, records, hint, result>>

\* Mutant: every sample keeps the summary parsed from its own answer.
ReusedSummary_own(stored, parsed) == parsed

\* lines 1224-1233: the summary stored for the study (0: none) takes the
\* place of the sample's parsed summary; without one the parsed summary stays
\* and is stored by set_study_summary unless it is "N/A"
ReusedSummary(stored, parsed) == IF stored # 0 THEN stored ELSE parsed

\* line 1251: the boolean field is lower-cased, 'no' when it is 'N/A'
NormaliseBoolean(v) == IF v # NA THEN Lower(v) ELSE "no"

\* lines 1223-1269 and writer.writerow: the study summary is reused or saved,
\* the study context takes the sample's values, the row is written.  The
\* record's field study is history: the study group key of the sample.
S_Emit ==
    /\ spc = "emit"
    /\ LET summary == ReusedSummary(study_summary, parsed_data.scientific_sample_summary)
           c1 == update_study_context(study_context, "cell_line_name",
                                      parsed_data.cell_line_name)
           c2 == update_study_context(c1, "species", parsed_data.species)
           c3 == update_study_context(c2, "sample_type", parsed_data.sample_type)
       IN /\ study_summary' = summary
          /\ study_context' = c3
          /\ records' = Append(records,
                               [id |-> sample.id,
                                gse |-> extract_geo_accessions(sample.xml).gse,
                                gsm |-> extract_geo_accessions(sample.xml).gsm,
                                species |-> parsed_data.species,
                                sample_type |-> parsed_data.sample_type,
                                cell_line_name |-> parsed_data.cell_line_name,
                                is_chipseq_related_experiment |->
                                    NormaliseBoolean(parsed_data.is_chipseq_related_experiment),
                                scientific_sample_summary |-> summary,
                                study |-> extract_study_id(sample.id,
                                             extract_geo_accessions(sample.xml).gse)])
    /\ stages' = Append(stages, "EMIT")
    /\ result' = "row"
    /\ samples_done' = samples_done + 1
    /\ spc' = "idle"
    /\ UNCHANGED <<fileVars, outVars, inputVars, workerVars, procVars, tailerVars,
                   mainVars, runVars, chainVars, poolVars, resVars, mcall, sample,
                   fetch_attempts, infer_attempts, geo_summary, llm_response,
                   parsed_data, current_study_id, current_study_llm, study_sample_count,
                   llm_instances, hint>>

\* ------------------------- SimpleLLMProcessor's study methods called directly
\* get_llm_for_study(srx_id, gse_id); records keeps the arguments of the calls.
\* The identifiers and GSE accessions (0: "N/A") the calls are made with: SRR12
\* does not start with SRX, ERX or DRX.
G_GetLLM ==
    /\ Len(records) < MaxStudyCalls
    /\ \E id \in {Id("SRX", 10), Id("SRX", 11), Id("SRX", 20), Id("ERX", 10), Id("SRR", 12)},
          gse \in {0, 1, 2}, fresh \in {"llm", "none"} :
          LET r == get_llm_for_study(id, gse, fresh)
          IN /\ current_study_id' = r.id
             /\ current_study_llm' = r.llm
             /\ study_sample_count' = r.count
             /\ study_context' = r.context
             /\ study_summary' = r.summary
             /\ llm_instances' = llm_instances + (IF r.created THEN 1 ELSE 0)
             /\ hint' = r.context
             /\ records' = Append(records, [id |-> id, gse |-> gse])
    /\ UNCHANGED <<fileVars, outVars, inputVars, workerVars, procVars, tailerVars,
                   mainVars, runVars, chainVars, poolVars, resVars, mcall, spc, sample,
                   samples_done, stages, fetch_attempts, infer_attempts, geo_summary,
                   llm_response, parsed_data, result>>

\* update_study_context(key, value)
G_UpdateContext ==
    /\ \E key \in ContextFields, value \in {"Homo sapiens", "", NA} :
          study_context' = update_study_context(study_context, key, value)
    /\ UNCHANGED <<fileVars, outVars, inputVars, workerVars, procVars, tailerVars,
                   mainVars, sampleVars, runVars, chainVars, poolVars, resVars, mcall,
                   current_study_id, current_study_llm, study_sample_count,
                   study_summary, llm_instances>>

\* set_study_summary(summary), lines 576-579 (0 is "N/A")
G_SetSummary ==
    /\ \E summary \in {0, 1, 2} :
          study_summary' = IF summary # 0 THEN summary ELSE study_summary
    /\ UNCHANGED <<fileVars, outVars, inputVars, workerVars, procVars, tailerVars,
                   mainVars, sampleVars, runVars, chainVars, poolVars, resVars, mcall,
                   current_study_id, current_study_llm, study_sample_count,
                   study_context, llm_instances>>

\* ------------------------------------ SRA_fetch.py: LLMProcessor._run_llm_chain
\* A response is a sequence of tokens separated by white space: "{" and "}"
\* are the braces of an object written out member by member, "key" is a
\* member's name with its colon, "obj" a complete object without nesting
\* (such as {"a": 1}), "arr" a complete array without nesting, "prose" a word
\* of plain text, "fence_json" the opening fence of a json block (three
\* backticks and the word json) and "fence" three backticks alone.
Tokens == {"{", "}", "key", "obj", "arr", "prose", "fence_json", "fence"}

RECURSIVE Texts(_)
Texts(n) == IF n = 0 THEN {<<>>}
            ELSE Texts(n - 1) \cup {Append(t, k) : t \in Texts(n - 1), k \in Tokens}

Responses == Texts(MaxTokens)

Purposes == {"GEO Accessions Extraction", "Metadata Synthesis",
             "Scientific Summary Generation"}

NoResult == [kind |-> "pending", value |-> <<>>]
\* json.dumps({"gse": "N/A", "gsm": "N/A"}), "N/A", None
GeoDefault == [kind |-> "json", value |-> <<"obj">>]
NotAvailable == [kind |-> "text", value |-> <<>>]
None == [kind |-> "None", value |-> <<>>]

\* json.loads: the number of tokens a JSON value at the head of s takes, 0 when
\* there is none.  A value is obj, arr, or "{" (key value)* "}".
RECURSIVE ValueLen(_), MembersLen(_)
ValueLen(s) ==
    IF s = <<>> THEN 0
    ELSE IF Head(s) \in {"obj", "arr"} THEN 1
    ELSE IF Head(s) = "{"
         THEN LET m == MembersLen(Tail(s)) IN IF m = 0 THEN 0 ELSE 1 + m
    ELSE 0

\* the members of an object up to and including its closing brace
MembersLen(s) ==
    IF s = <<>> THEN 0
    ELSE IF Head(s) = "}" THEN 1
    ELSE IF Head(s) = "key"
         THEN LET v == ValueLen(Tail(s))
              IN IF v = 0 THEN 0
                 ELSE LET r == MembersLen(SubSeq(s, v + 2, Len(s)))
                      IN IF r = 0 THEN 0 ELSE 1 + v + r
    ELSE 0

\* json.loads(c) does not raise
json_loads(c) == c # <<>> /\ ValueLen(c) = Len(c)

\* isinstance(parsed_json, dict) / isinstance(parsed_json, list)
IsDict(c) == json_loads(c) /\ c[1] \in {"{", "obj"}
IsList(c) == json_loads(c) /\ c[1] = "arr"

\* The least element of a non-empty set of numbers
Least(S) == CHOOSE x \in S : \A y \in S : x <= y

\* line 394, the search for a fenced block: the leftmost opening fence that
\* is
\* followed by an opening brace or bracket and, later, by a closing one
\* standing before a fence; group(1) runs to the first such closing one.
fence_match(t) ==
    LET ends(i) == {j \in (i + 1)..(Len(t) - 1) :
                       /\ t[j] \in {"}", "obj", "arr"}
                       /\ t[j + 1] \in {"fence", "fence_json"}}
        starts == {i \in 1..(Len(t) - 1) :
                       /\ t[i] = "fence_json"
                       /\ t[i + 1] \in {"{", "obj", "arr"}
                       /\ ends(i) # {}}
    IN IF starts = {} THEN <<>>
       ELSE SubSeq(t, Least(starts) + 1, Least(ends(Least(starts))))

\* line 405, the non-greedy search for an object: from the first opening
\* brace to the first closing brace after it (the pair of the two positions,
\* or <<>> when there is no match)
obj_match(t) ==
    LET opens == {i \in 1..Len(t) : t[i] \in {"{", "obj"}}
    IN IF opens = {} THEN <<>>
       ELSE LET a == Least(opens)
                closes == {j \in a..Len(t) :
                              t[j] = "obj" \/ (j > a /\ t[j] = "}")}
            IN IF closes = {} THEN <<>> ELSE <<a, Least(closes)>>

\* line 406, the non-greedy search for an array
arr_match(t) ==
    LET opens == {i \in 1..Len(t) : t[i] = "arr"}
    IN IF opens = {} THEN <<>> ELSE <<Least(opens), Least(opens)>>

\* lines 392-417: the one candidate string an attempt settles on
json_str_candidate(t) ==
    IF fence_match(t) # <<>> THEN fence_match(t)
    ELSE IF /\ t # <<>>
            /\ \/ (t[1] \in {"{", "obj"} /\ t[Len(t)] \in {"}", "obj"})
               \/ (t[1] = "arr" /\ t[Len(t)] = "arr")
    THEN t
    ELSE LET o == obj_match(t)
             a == arr_match(t)
         IN IF o # <<>> /\ a # <<>>
            THEN (IF o[1] < a[1] THEN SubSeq(t, o[1], o[2]) ELSE SubSeq(t, a[1], a[2]))
            ELSE IF o # <<>> THEN SubSeq(t, o[1], o[2])
            ELSE IF a # <<>> THEN SubSeq(t, a[1], a[2])
            ELSE <<>>

\* lines 419-452: the attempt's outcome for the two JSON purposes: the string
\* returned, or NoResult when the attempt fails
AttemptResult(p, t) ==
    LET c == json_str_candidate(t)
    IN IF c = <<>> \/ ~json_loads(c) THEN NoResult
       ELSE IF p = "GEO Accessions Extraction" /\ IsList(c)
       THEN [kind |-> "json", value |-> <<"obj">>]
       ELSE IF p = "Metadata Synthesis" /\ ~IsDict(c) THEN NoResult
       ELSE [kind |-> "json", value |-> c]

\* lines 478-481 (and 371-374): what is returned when nothing was obtained
Default(p) ==
    CASE p = "GEO Accessions Extraction" -> GeoDefault
      [] p = "Scientific Summary Generation" -> NotAvailable
      [] OTHER -> None

\* lines 366-378: the call; without a backend it returns the default at once
L_Call ==
    /\ lpc \in {"idle", "done"}
    /\ \E p \in Purposes, llm \in BOOLEAN :
          /\ purpose' = p
          /\ IF llm THEN lpc' = "try" /\ chain_result' = NoResult
                    ELSE lpc' = "done" /\ chain_result' = Default(p)
    /\ attempt' = 0
    /\ response_text' = <<>>
    /\ UNCHANGED <<fileVars, outVars, inputVars, workerVars, procVars, tailerVars,
                   mainVars, sampleVars, studyVars, runVars, poolVars, resVars, mcall>>

\* lines 380-391, 471-477: chain.invoke of one attempt: an answer, or an
\* exception, after which the loop goes to the next attempt
L_Invoke ==
    /\ lpc = "try"
    /\ attempt < RETRY_ATTEMPTS
    /\ \/ \E r \in Responses : response_text' = r /\ lpc' = "got" /\ UNCHANGED attempt
       \/ attempt' = attempt + 1 /\ UNCHANGED <<response_text, lpc>>
    /\ UNCHANGED <<fileVars, outVars, inputVars, workerVars, procVars, tailerVars,
                   mainVars, sampleVars, studyVars, runVars, poolVars, resVars, mcall,
                   purpose, chain_result>>

\* lines 392-470: what the attempt makes of the answer
L_Extract ==
    /\ lpc = "got"
    /\ LET r == IF purpose = "Scientific Summary Generation"
                 THEN (IF response_text # <<>>
                       THEN [kind |-> "text", value |-> response_text]
                       ELSE NotAvailable)
                 ELSE AttemptResult(purpose, response_text)
       IN IF r # NoResult
          THEN /\ lpc' = "done"
               /\ chain_result' = r
               /\ UNCHANGED <<attempt, response_text>>
          ELSE /\ lpc' = "try"
               /\ attempt' = attempt + 1
               /\ response_text' = <<>>     \* the answer of a failed attempt is dropped
               /\ UNCHANGED chain_result
    /\ UNCHANGED <<fileVars, outVars, inputVars, workerVars, procVars, tailerVars,
                   mainVars, sampleVars, studyVars, runVars, poolVars, resVars, mcall,
                   purpose>>

\* lines 478-481: the retries are used up
L_Exhausted ==
    /\ lpc = "try"
    /\ attempt = RETRY_ATTEMPTS
    /\ chain_result' = Default(purpose)
    /\ lpc' = "done"
    /\ UNCHANGED <<fileVars, outVars, inputVars, workerVars, procVars, tailerVars,
                   mainVars, sampleVars, studyVars, runVars, poolVars, resVars, mcall,
                   purpose, attempt, response_text>>

\* ------------------------------------------------- main's loop over keywords
\* Mutant: an exception of one identifier leaves the keyword's loop.
AfterIdException_escapes == "main"

\* lines 1757-1759: except Exception ... continue, inside the loop over the
\* identifiers: where the run is after an identifier raised
AfterIdException == "ids"

\* main, lines 1800-1803: the next keyword, stream_process_keyword is called
K_NextKeyword ==
    /\ kpc = "main"
    /\ ki < NumKeywords
    /\ ki' = ki + 1
    /\ kw_log' = Append(kw_log, ki + 1)
    /\ kpos' = 0
    /\ kpc' = "setup"
    /\ UNCHANGED <<fileVars, outVars, inputVars, workerVars, procVars, tailerVars,
                   mainVars, sampleVars, studyVars, chainVars, poolVars, resVars, mcall,
                   calls>>

\* stream_process_keyword up to its loop (lines 1703-1732): the resume set, the
\* output directory, the download thread, the result file.  An exception here
\* (makedirs re-raises, open may fail) reaches main, which goes on with the
\* next keyword (lines 1805-1807).
K_Setup ==
    /\ kpc = "setup"
    /\ \E raised \in BOOLEAN :
          kpc' = IF raised THEN "main" ELSE "ids"
    /\ UNCHANGED <<fileVars, outVars, inputVars, workerVars, procVars, tailerVars,
                   mainVars, sampleVars, studyVars, chainVars, poolVars, resVars, mcall,
                   ki, kpos, calls, kw_log>>

\* One identifier of a batch (lines 1734-1759): process_single_srx returns a
\* row, returns None, or raises.
K_ProcessId ==
    /\ kpc = "ids"
    /\ kpos < IdsPerKeyword
    /\ kpos' = kpos + 1
    /\ \E outcome \in {"row", "None", "raised"} :
          /\ calls' = Append(calls, [kw |-> ki, n |-> kpos + 1, outcome |-> outcome])
          /\ kpc' = IF outcome = "raised" THEN AfterIdException ELSE "ids"
    /\ UNCHANGED <<fileVars, outVars, inputVars, workerVars, procVars, tailerVars,
                   mainVars, sampleVars, studyVars, chainVars, poolVars, resVars, mcall,
                   ki, kw_log>>

\* The reader has no more batches: lines 1761-1768, back in main
K_EndKeyword ==
    /\ kpc = "ids"
    /\ kpos = IdsPerKeyword
    /\ kpc' = "main"
    /\ UNCHANGED <<fileVars, outVars, inputVars, workerVars, procVars, tailerVars,
                   mainVars, sampleVars, studyVars, chainVars, poolVars, resVars, mcall,
                   ki, kpos, calls, kw_log>>

\* main after its loop (line 1809)
K_Completed ==
    /\ kpc = "main"
    /\ ki = NumKeywords
    /\ kpc' = "completed"
    /\ UNCHANGED <<fileVars, outVars, inputVars, workerVars, procVars, tailerVars,
                   mainVars, sampleVars, studyVars, chainVars, poolVars, resVars, mcall,
                   ki, kpos, calls, kw_log>>

\* ------------------------------------------- SRA_fetch.py: the worker pool
\* main of SRA_fetch.py (lines 939-1015): per keyword the identifiers of the
\* run info are submitted to a ThreadPoolExecutor, the futures are taken as
\* they complete, their records are buffered and written in batches.
BATCH_SIZE_LLM == 3

\* One row of the result file of SRA_fetch.py: the header, or a record with
\* its original_keyword, its sra_experiment_id and what kind of record it is.
\* _process_single_srx: the record starts as N/A everywhere with the keyword
\* and the identifier (lines 735-737); on every return path these two stay.
worker_record(keyword, srx_id) == [kw |-> keyword, id |-> srx_id, kind |-> "worker"]

\* the record main builds when future.result() raised (lines 998-1002)
failure_record(keyword, srx_id) == [kw |-> keyword, id |-> srx_id, kind |-> "failure"]

\* the record of a keyword without identifiers (lines 957-961)
placeholder_record(keyword) == [kw |-> keyword, id |-> "NO_SRA_IDS_FOUND_FOR_KEYWORD", kind |-> "placeholder"]

\* CSVResultWriter._open_writer: the header is written when the file is
\* missing or empty, the file is opened for appending.
open_writer(file) == IF file = <<>> THEN <<[kw |-> 0, id |-> "sra_experiment_id", kind |-> "header"]>> ELSE file

\* CSVResultWriter.write_batch: one row per record, in the order of the list
write_batch(file, data_list) == file \o data_list

\* Mutant: the final flush of the keyword is left out.
FinalFlush_skipped(file, data_list) == file

\* lines 1009-1011: what is still buffered when the pool is done is written
FinalFlush(file, data_list) == IF data_list # <<>> THEN write_batch(file, data_list) ELSE file

\* ThreadPoolExecutor: the futures some worker thread is running
Running(f) == {i \in DOMAIN f : f[i] = "running"}

\* the futures no worker thread has taken yet
Pending(f) == {i \in DOMAIN f : f[i] = "pending"}

\* the futures as_completed can hand out: finished, and not handed out yet
Completed(f, handed) == {i \in DOMAIN f : f[i] \in {"returned", "raised"} /\ i \notin handed}

\* main opens the CSVResultWriter and enters the loop over the keywords
P_Open ==
    /\ ppc = "idle"
    /\ \E w \in 1..MaxWorkers : max_workers' = w
    /\ csv_rows' = open_writer(csv_rows)
    /\ ppc' = "keywords"
    /\ UNCHANGED <<fileVars, outVars, inputVars, workerVars, procVars, tailerVars,
                   mainVars, sampleVars, studyVars, runVars, chainVars, resVars, mcall,
                   pkw, sra_experiment_ids_all, futures, taken, batch_of_records_for_csv,
                   submitted>>

\* the next keyword: its identifiers are looked up; without identifiers the
\* placeholder is written at once, otherwise every identifier is submitted
P_Keyword ==
    /\ ppc = "keywords"
    /\ pkw < NumPoolKeywords
    /\ pkw' = pkw + 1
    /\ \E ids \in {[i \in 1..n |-> Id("SRX", i)] : n \in 0..MaxPoolIds} :
          /\ sra_experiment_ids_all' = ids
          /\ IF ids = <<>>
             THEN /\ csv_rows' = write_batch(csv_rows, <<placeholder_record(pkw + 1)>>)
                  /\ futures' = <<>>
                  /\ UNCHANGED <<ppc, submitted, batch_of_records_for_csv>>
             ELSE /\ futures' = [i \in DOMAIN ids |-> "pending"]
                  /\ submitted' = submitted \cup {<<pkw + 1, ids[i]>> : i \in DOMAIN ids}
                  /\ batch_of_records_for_csv' = <<>>
                  /\ ppc' = "pool"
                  /\ UNCHANGED csv_rows
    /\ taken' = {}
    /\ UNCHANGED <<fileVars, outVars, inputVars, workerVars, procVars, tailerVars,
                   mainVars, sampleVars, studyVars, runVars, chainVars, resVars, mcall,
                   max_workers>>

\* a free worker thread takes the oldest future of the work queue
P_WorkerStart ==
    /\ ppc = "pool"
    /\ Pending(futures) # {}
    /\ Cardinality(Running(futures)) < max_workers
    /\ LET i == Least(Pending(futures))
       IN futures' = [futures EXCEPT ![i] = "running"]
    /\ UNCHANGED <<fileVars, outVars, inputVars, workerVars, procVars, tailerVars,
                   mainVars, sampleVars, studyVars, runVars, chainVars, resVars, mcall,
                   ppc, pkw, max_workers, sra_experiment_ids_all, taken,
                   batch_of_records_for_csv, csv_rows, submitted>>

\* _process_single_srx of a running future returns its record, or raises
P_WorkerEnd ==
    /\ ppc = "pool"
    /\ \E i \in Running(futures), how \in {"returned", "raised"} :
          futures' = [futures EXCEPT ![i] = how]
    /\ UNCHANGED <<fileVars, outVars, inputVars, workerVars, procVars, tailerVars,
                   mainVars, sampleVars, studyVars, runVars, chainVars, resVars, mcall,
                   ppc, pkw, max_workers, sra_experiment_ids_all, taken,
                   batch_of_records_for_csv, csv_rows, submitted>>

\* one turn of the loop over as_completed (lines 975-1007)
P_Collect ==
    /\ ppc = "pool"
    /\ \E i \in Completed(futures, taken) :
          LET srx_id_completed == sra_experiment_ids_all[i]
              rec == IF futures[i] = "returned"
                     THEN worker_record(pkw, srx_id_completed)
                     ELSE failure_record(pkw, srx_id_completed)
              buffered == Append(batch_of_records_for_csv, rec)
          IN /\ taken' = taken \cup {i}
             /\ IF Len(buffered) >= BATCH_SIZE_LLM
                THEN /\ csv_rows' = write_batch(csv_rows, buffered)
                     /\ batch_of_records_for_csv' = <<>>
                ELSE /\ batch_of_records_for_csv' = buffered
                     /\ UNCHANGED csv_rows
    /\ UNCHANGED <<fileVars, outVars, inputVars, workerVars, procVars, tailerVars,
                   mainVars, sampleVars, studyVars, runVars, chainVars, resVars, mcall,
                   ppc, pkw, max_workers, sra_experiment_ids_all, futures, submitted>>

\* every future was handed out: the pool is shut down and the rest is written
P_EndKeyword ==
    /\ ppc = "pool"
    /\ taken = DOMAIN futures
    /\ csv_rows' = FinalFlush(csv_rows, batch_of_records_for_csv)
    /\ ppc' = "keywords"
    /\ UNCHANGED <<fileVars, outVars, inputVars, workerVars, procVars, tailerVars,
                   mainVars, sampleVars, studyVars, runVars, chainVars, resVars, mcall,
                   pkw, max_workers, sra_experiment_ids_all, futures, taken,
                   batch_of_records_for_csv, submitted>>

\* after the last keyword the writer is closed (line 1015)
P_Close ==
    /\ ppc = "keywords"
    /\ pkw = NumPoolKeywords
    /\ ppc' = "closed"
    /\ UNCHANGED <<fileVars, outVars, inputVars, workerVars, procVars, tailerVars,
                   mainVars, sampleVars, studyVars, runVars, chainVars, resVars, mcall,
                   pkw, max_workers, sra_experiment_ids_all, futures, taken,
                   batch_of_records_for_csv, csv_rows, submitted>>


\* ------------------------------------- the result file over keywords and runs
\* main (lines 1763-1809) calls stream_process_keyword once per keyword with
\* append=(args.append or i > 0); the program is run again on the same result
\* file. The streaming of each keyword is reduced to the identifiers it
\* yields, each at most once per keyword.
\* lines 1721-1725: open(output_csv, mode) and the header row
OpenOutput(csv, app) == IF app THEN csv ELSE <<OutHdr>>

\* the program is started (again) on the result file, with or without --append
R_Run ==
    /\ rpc \in {"idle", "completed"}
    /\ run_no < MaxRuns
    /\ run_no' = run_no + 1
    /\ \E flag \in BOOLEAN : args_append' = flag
    /\ rki' = 0
    /\ rpc' = "main"
    /\ UNCHANGED <<fileVars, outVars, inputVars, workerVars, procVars, tailerVars,
                   mainVars, sampleVars, studyVars, runVars, chainVars, poolVars, mcall,
                   seen_ids>>

\* lines 1800-1807 and 1699-1725: the next keyword; makedirs may raise, which
\* ends the keyword before the result file is opened
R_Keyword ==
    /\ rpc = "main"
    /\ rki < NumRunKeywords
    /\ rki' = rki + 1
    /\ append' = (args_append \/ rki > 0)
    /\ already_processed' = IF append'
                            THEN load_already_processed_samples(output_csv, output_exists)
                            ELSE {}
    /\ seen_ids' = {}
    /\ \E setup \in {"ok", "raises"} :
          IF setup = "ok"
          THEN /\ preexisting' = [exists |-> output_exists, csv |-> output_csv]
               /\ output_exists' = TRUE
               /\ output_csv' = OpenOutput(output_csv, append')
               /\ rpc' = "rows"
          ELSE UNCHANGED <<preexisting, output_exists, output_csv, rpc>>
    /\ UNCHANGED <<fileVars, workerVars, procVars, tailerVars, sampleVars, studyVars,
                   runVars, chainVars, poolVars, NCBI_TOOLS_AVAILABLE, fmt, mpc, yielded,
                   fetched, mcall, run_no, args_append>>

\* lines 1734-1759: one identifier the generator yields for this keyword
R_Id ==
    /\ rpc = "rows"
    /\ \E srx_id \in {Id("SRX", 1), Id("SRX", 2)} \ seen_ids, outcome \in {"row", "none", "raise"} :
          /\ seen_ids' = seen_ids \cup {srx_id}
          /\ output_csv' = IF srx_id \notin already_processed /\ RowWritten(outcome)
                           THEN Append(output_csv, OutRow(srx_id))
                           ELSE output_csv
    /\ UNCHANGED <<fileVars, inputVars, workerVars, procVars, tailerVars, mainVars,
                   sampleVars, studyVars, runVars, chainVars, poolVars, output_exists,
                   mcall, rpc, run_no, args_append, rki>>

\* the generator is exhausted, stream_process_keyword returns
R_EndKeyword ==
    /\ rpc = "rows"
    /\ rpc' = "main"
    /\ UNCHANGED <<fileVars, outVars, inputVars, workerVars, procVars, tailerVars,
                   mainVars, sampleVars, studyVars, runVars, chainVars, poolVars, mcall,
                   run_no, args_append, rki, seen_ids>>

\* line 1809: main is through its keywords
R_Completed ==
    /\ rpc = "main"
    /\ rki = NumRunKeywords
    /\ rpc' = "completed"
    /\ UNCHANGED <<fileVars, outVars, inputVars, workerVars, procVars, tailerVars,
                   mainVars, sampleVars, studyVars, runVars, chainVars, poolVars, mcall,
                   run_no, args_append, rki, seen_ids>>

\* ------------------------------------------------------------ specification
\* Result files a run may find: none, one written by an earlier run (a
\* processed sample, a record whose identifier carries an error marker, the
\* placeholder of a keyword without samples), one without the header row.
InitialOutputs ==
    {[exists |-> FALSE, csv |-> <<>>],
     [exists |-> TRUE,
      csv |-> <<OutHdr, OutRow(Id("SRX", 1)),
                OutRow([pfx |-> "DRX", num |-> 4, err |-> TRUE]),
                OutRow([pfx |-> "NO_", num |-> 0, err |-> TRUE])>>],
     [exists |-> TRUE, csv |-> <<OutRow(Id("SRX", 1))>>]}

\* The runs checked: every input varied against the plain run (tools
\* available, standard header, no append, no earlier result file).
Scenarios ==
    {[tools |-> t, fmt |-> "std", append |-> FALSE, out |-> [exists |-> FALSE, csv |-> <<>>]]
        : t \in BOOLEAN}
    \cup {[tools |-> TRUE, fmt |-> f, append |-> FALSE, out |-> [exists |-> FALSE, csv |-> <<>>]]
        : f \in Formats}
    \cup {[tools |-> TRUE, fmt |-> "std", append |-> a, out |-> o]
        : a \in BOOLEAN, o \in InitialOutputs}

\* mcall: the mode and offset of the previous direct call of the merger, what
\* its write block met (outcome), the value it returned, whether it changed the corpus (grew), whether the scratch
\* file is unchanged since (fresh), and whether that call repeated the call
\* before it on an unchanged scratch file (repeat).
NoCall == [final |-> FALSE, skip |-> 0, n |-> 0, outcome |-> "written",
           fresh |-> FALSE, repeat |-> FALSE, grew |-> FALSE]

\* Nothing of the pipeline has started.
Idle ==
    /\ wpc = "idle"
    /\ last_temp_size = 0
    /\ polls = 0
    /\ efetch_proc = "none"
    /\ esearch_proc = "none"
    /\ timed_out = FALSE
    /\ degraded = FALSE
    /\ efetched = <<>>
    /\ tpc = "idle"
    /\ wait_time = 0
    /\ processed_rows = 0
    /\ reader_pos = 0
    /\ last_file_size = 0
    /\ no_change_cycles = 0
    /\ header_processed = FALSE
    /\ batch = <<>>
    /\ mpc = "init"
    /\ already_processed = {}
    /\ yielded = <<>>
    /\ fetched = {}
    /\ preexisting = [exists |-> FALSE, csv |-> <<>>]
    /\ mcall = NoCall
    /\ spc = "idle"
    /\ sample = NoSample
    /\ samples_done = 0
    /\ stages = <<>>
    /\ fetch_attempts = 0
    /\ infer_attempts = 0
    /\ geo_summary = NA
    /\ llm_response = <<>>
    /\ parsed_data = NoData
    /\ records = <<>>
    /\ hint = EmptyContext
    /\ result = "pending"
    /\ current_study_id = NoStudy
    /\ current_study_llm = "none"
    /\ study_sample_count = 0
    /\ study_context = EmptyContext
    /\ study_summary = 0
    /\ llm_instances = 0
    /\ kpc = "main"
    /\ ki = 0
    /\ kpos = 0
    /\ calls = <<>>
    /\ kw_log = <<>>
    /\ lpc = "idle"
    /\ purpose = "none"
    /\ attempt = 0
    /\ response_text = <<>>
    /\ chain_result = NoResult
    /\ ppc = "idle"
    /\ pkw = 0
    /\ max_workers = 0
    /\ sra_experiment_ids_all = <<>>
    /\ futures = <<>>
    /\ taken = {}
    /\ batch_of_records_for_csv = <<>>
    /\ csv_rows = <<>>
    /\ submitted = {}
    /\ rpc = "idle"
    /\ run_no = 0
    /\ args_append = FALSE
    /\ rki = 0
    /\ seen_ids = {}

\* A keyword's run in one of the scenarios S: neither the corpus file nor the
\* scratch file exists, nothing has started.
Start(S) ==
    /\ \E sc \in S :
          /\ NCBI_TOOLS_AVAILABLE = sc.tools
          /\ fmt = sc.fmt
          /\ append = sc.append
          /\ output_csv = sc.out.csv
          /\ output_exists = sc.out.exists
    /\ main_file = <<>>
    /\ main_exists = FALSE
    /\ temp_file = <<>>
    /\ temp_exists = FALSE
    /\ Idle

Init == Start(Scenarios)

Next == WorkerNext \/ ProcNext \/ TailerNext \/ MainNext

Spec == Init /\ [][Next]_vars

\* The worker thread and the main thread (the reader and its consumer) are
\* scheduled by the interpreter and always get to run; nothing is assumed about
\* the external processes.
\* Termination does not depend on the result file: the runs without append.
InitFair == Start({sc \in Scenarios : ~sc.append /\ ~sc.out.exists /\ sc.fmt # "short"})

FairSpec ==
    /\ InitFair
    /\ [][Next]_vars
    /\ WF_vars(WorkerNext)
    /\ WF_vars(TailerNext)
    /\ WF_vars(MainNext)

\* ------------------------------------- incremental_merge_from_temp, directly
\* The merger called directly, in any order of modes and offsets, while the
\* scratch file grows by arbitrary lines: a header, rows (one of them with an
\* excluded strategy, one with a foreign accession prefix), XML error lines.
MergeLines ==
    {Hdr(fmt), Row(Id("SRX", 1), "RNA-Seq", fmt), Row(Id("ERX", 2), "WGA", fmt),
     Row(Id("GSM", 3), "RNA-Seq", fmt), XmlOpen, XmlEnd}

\* The offsets a caller passes: sizes the scratch file had at some moment
RECURSIVE Offsets(_)
Offsets(f) == IF f = <<>> THEN {0} ELSE {Size(f)} \cup Offsets(SubSeq(f, 1, Len(f) - 1))

MS_Write ==
    /\ Len(temp_file) < MaxMergeScratch
    /\ \E l \in MergeLines : temp_file' = Append(temp_file, l)
    /\ mcall' = [mcall EXCEPT !.fresh = FALSE]
    /\ UNCHANGED <<outVars, inputVars, workerVars, procVars, tailerVars, mainVars,
                   sampleVars, studyVars, runVars, chainVars, poolVars, resVars,
                   main_file, main_exists, temp_exists>>

MS_Merge ==
    /\ \E final_merge \in BOOLEAN, skip_bytes \in Offsets(temp_file),
          outcome \in WriteOutcomes :
          LET r == incremental_merge_from_temp(temp_file, temp_exists, main_file,
                                               main_exists, skip_bytes, final_merge,
                                               outcome)
          IN /\ main_file' = r.main
             /\ main_exists' = r.mainExists
             /\ mcall' = [final |-> final_merge, skip |-> skip_bytes, n |-> r.n,
                          outcome |-> outcome,
                          fresh |-> TRUE,
                          repeat |-> /\ mcall.fresh
                                     /\ mcall.final = final_merge
                                     /\ mcall.skip = skip_bytes,
                          grew |-> r.main # main_file]
    /\ UNCHANGED <<outVars, inputVars, workerVars, procVars, tailerVars, mainVars,
                   sampleVars, studyVars, runVars, chainVars, poolVars, resVars,
                   temp_file, temp_exists>>

\* The corpus file starts empty; the scratch file exists and is empty.
InitMerge ==
    /\ fmt \in Formats
    /\ NCBI_TOOLS_AVAILABLE = TRUE
    /\ append = FALSE
    /\ output_csv = <<>>
    /\ output_exists = FALSE
    /\ main_file = <<>>
    /\ main_exists = TRUE
    /\ temp_file = <<>>
    /\ temp_exists = TRUE
    /\ Idle

NextMerge == MS_Write \/ MS_Merge

MergeSpec == InitMerge /\ [][NextMerge]_vars

\* One run with the tools available, writing a fresh result file: the start
\* of every specification below that follows one part of a run.
InitRun == Start({CHOOSE sc \in Scenarios : sc.tools /\ ~sc.append})

\* The samples of a run, one after the other, through process_single_srx with
\* one SimpleLLMProcessor
NextSample ==
    \/ S_Begin
    \/ S_FetchAttempt
    \/ S_CrossReference
    \/ S_ContextBuild
    \/ S_Infer
    \/ S_Parse
    \/ S_Repair
    \/ S_Emit

SampleSpec == InitRun /\ [][NextSample]_vars

\* A run of main over its keywords
NextRun ==
    \/ K_NextKeyword
    \/ K_Setup
    \/ K_ProcessId
    \/ K_EndKeyword
    \/ K_Completed

RunSpec == InitRun /\ [][NextRun]_vars

\* Calls of the study methods of one SimpleLLMProcessor
NextStudy ==
    \/ G_GetLLM
    \/ G_UpdateContext
    \/ G_SetSummary

StudySpec == InitRun /\ [][NextStudy]_vars

\* Calls of _run_llm_chain
NextChain ==
    \/ L_Call
    \/ L_Invoke
    \/ L_Extract
    \/ L_Exhausted

ChainSpec == InitRun /\ [][NextChain]_vars

\* The worker pool of SRA_fetch.py over its keywords
NextPool ==
    \/ P_Open
    \/ P_Keyword
    \/ P_WorkerStart
    \/ P_WorkerEnd
    \/ P_Collect
    \/ P_EndKeyword
    \/ P_Close

PoolSpec == InitRun /\ [][NextPool]_vars

\* A keyword's run that finds the corpus file of an earlier run of the same
\* keyword at its path (nothing removes efetched_<keyword>.csv after a run):
\* the header and one eligible row the current download will not bring.
InitStale ==
    /\ NCBI_TOOLS_AVAILABLE \in BOOLEAN
    /\ fmt = "std"
    /\ append = FALSE
    /\ output_csv = <<>>
    /\ output_exists = FALSE
    /\ main_file = <<StdHeader, Row(Id("SRX", 9), "RNA-Seq", "std")>>
    /\ main_exists = TRUE
    /\ temp_file = <<>>
    /\ temp_exists = FALSE
    /\ Idle

StaleSpec == InitStale /\ [][Next]_vars

\* Runs of the program, one after the other, on one result file. The result
\* files the first run may find: none, an empty one, one written by an
\* earlier run that did not append.
InitResult ==
    Start({[tools |-> TRUE, fmt |-> "std", append |-> FALSE, out |-> o] :
              o \in {[exists |-> FALSE, csv |-> <<>>],
                     [exists |-> TRUE, csv |-> <<>>],
                     [exists |-> TRUE, csv |-> <<OutHdr, OutRow(Id("SRX", 1))>>]}})

NextResult ==
    \/ R_Run
    \/ R_Keyword
    \/ R_Id
    \/ R_EndKeyword
    \/ R_Completed

ResultSpec == InitResult /\ [][NextResult]_vars

\* =================================================================== claims
\* C1: once a keyword's run has completed, every identifier that
\* read_runinfo_batches yielded appears in exactly one row of the result file,
\* also when its description fetch or its processing failed.
C1_ExactlyOneRowPerYielded ==
    mpc = "done" =>
       \A k \in 1..Len(yielded) :
          Cardinality({j \in 1..Len(output_csv) :
                          output_csv[j] = [kind |-> "row", id |-> yielded[k]]}) = 1

\* C2: when read_runinfo_batches has finished after seeing the download thread
\* dead, every eligible row of the corpus file has been yielded, including the
\* rows the worker's final merge appended just before its thread ended.
C2_NoUnreadRowsAtFinish ==
    tpc = "done" =>
       \A j \in 2..Len(main_file) :
          (/\ main_file[j].kind = "row"
           /\ main_file[j].id.pfx \in {"SRX", "ERX", "DRX"}
           /\ main_file[j].strat \notin EXCLUDED_LIBRARY_STRATEGIES)
          => \E k \in 1..Len(yielded) : yielded[k] = main_file[j].id

\* C3: after any sequence of incremental-mode and final-mode merges into a
\* corpus file that started empty, no two data rows of the corpus carry the same
\* identifier and every data row's identifier starts with SRX, ERX or DRX.
C3_CorpusRowsUniqueAndValid ==
    \A i \in 1..Len(main_file) :
       main_file[i].kind = "row" =>
          /\ main_file[i].id.pfx \in {"SRX", "ERX", "DRX"}
          /\ \A j \in 1..Len(main_file) :
                (main_file[j].kind = "row" /\ main_file[j].id = main_file[i].id) => j = i

\* C4: a merge that repeats the previous call (same mode, same offset, scratch
\* file unchanged) returns 0 and leaves the corpus file as it was.
C4_SecondMergeIsNoOp ==
    mcall.repeat => (mcall.n = 0 /\ ~mcall.grew)

C6_OnlyEligibleYielded ==
    /\ \A k \in 1..Len(yielded) :
          /\ yielded[k].pfx \in {"SRX", "ERX", "DRX"}
          /\ \E j \in 2..Len(main_file) :
                /\ main_file[j].kind = "row"
                /\ main_file[j].id = yielded[k]
                /\ main_file[j].strat \notin EXCLUDED_LIBRARY_STRATEGIES
    /\ \A j \in 2..Len(main_file) :
          (main_file[j].kind = "row" /\ main_file[j].strat \in EXCLUDED_LIBRARY_STRATEGIES)
          => \A k \in 1..Len(yielded) : yielded[k] # main_file[j].id

C6_Witness ==
    /\ tpc = "done"
    /\ yielded # <<>>
    /\ \E j \in 2..Len(main_file) :
          /\ main_file[j].strat = "WGA"
          /\ processed_rows >= j - 1

\* C7: once the download thread has terminated, read_runinfo_batches
\* eventually returns, whatever corpus file the worker left behind.
C7_TailerReturnsAfterWorker ==
    (wpc = "done") ~> (tpc \in {"done", "gave_up"})

\* C8: the worker thread always terminates, whatever the external processes
\* do: the polling loop does not run past the download timeout, after a timeout
\* neither process is running any more when the worker has come through the
\* cleanup (they exited on terminate() or were killed), and the thread ends.
C8_WorkerTerminates ==
    /\ (wpc # "idle") ~> (wpc = "done")
    /\ [](wpc \in {"loop", "sleep"} => polls <= MaxPolls)
    /\ []((timed_out /\ wpc = "final")
             => (efetch_proc \in {"exited", "killed"}
                 /\ esearch_proc \in {"exited", "killed"}))

C8_Witness ==
    /\ wpc = "done"
    /\ timed_out
    /\ polls = MaxPolls + 1
    /\ efetch_proc = "killed"
    /\ esearch_proc = "killed"

\* C9: whenever the worker launched the external processes, every line efetch
\* wrote that is a row with a valid prefix and a strategy that is not excluded
\* is in the corpus file when the thread has ended (and efetch, exited or
\* killed, writes no more).
C9_ScratchRowsMergedAtEnd ==
    (wpc = "done" /\ efetch_proc \in {"exited", "killed"}) =>
       \A k \in 1..Len(efetched) :
          (/\ efetched[k].kind = "row"
           /\ efetched[k].id.pfx \in {"SRX", "ERX", "DRX"}
           /\ efetched[k].strat \notin EXCLUDED_LIBRARY_STRATEGIES)
          => \E j \in 1..Len(main_file) : main_file[j] = efetched[k]

C11_NoIdentifiersRecord ==
    (mpc = "done" /\ yielded = <<>>) =>
       LET base == IF append THEN preexisting.csv ELSE <<[kind |-> "hdr", id |-> NoId]>>
           placeholder == [kind |-> "row",
                           id |-> [pfx |-> "NO_", num |-> 0, err |-> TRUE]]
       IN output_csv = Append(base, placeholder)

\* C12: per sample the stages run in the order FETCH_DESCRIPTION,
\* CROSS_REFERENCE_LOOKUP, CONTEXT_BUILD, INFER, PARSE, REPAIR, EMIT, each at
\* most once; a sample whose description could not be fetched goes from
\* FETCH_DESCRIPTION directly to EMIT, so that it ends with a record of its own.
C12_StagesInOrderFailureEmitted ==
    LET Order == <<"FETCH_DESCRIPTION", "CROSS_REFERENCE_LOOKUP", "CONTEXT_BUILD",
                   "INFER", "PARSE", "REPAIR", "EMIT">>
    IN /\ \/ /\ Len(stages) <= Len(Order)
             /\ \A i \in 1..Len(stages) : stages[i] = Order[i]
          \/ stages = <<"FETCH_DESCRIPTION", "EMIT">>
       /\ (spc = "idle" /\ result = "None") =>
             /\ stages = <<"FETCH_DESCRIPTION", "EMIT">>
             /\ records # <<>>
             /\ records[Len(records)].id = sample.id

\* C13: retries are bounded by RETRY_ATTEMPTS and never surface as an error: a
\* sample whose description was not obtained in RETRY_ATTEMPTS attempts is
\* still emitted, as a record of its own whose fields are marked "N/A".
C13_ExhaustedRetriesStillEmitted ==
    /\ fetch_attempts <= RETRY_ATTEMPTS
    /\ infer_attempts <= RETRY_ATTEMPTS
    /\ (spc = "idle" /\ result = "None" /\ fetch_attempts = RETRY_ATTEMPTS) =>
          /\ Len(records) = samples_done
          /\ LET r == records[Len(records)]
             IN /\ r.id = sample.id
                /\ r.species = NA
                /\ r.sample_type = NA
                /\ r.cell_line_name = NA
                /\ r.scientific_sample_summary = 0

\* C14: after the REPAIR of a sample the backend answered for, each of the
\* fields species and cell_line_name for which the study group's history holds
\* exactly one value carries that value (the candidate was that value already,
\* or it differed from it or was "N/A" and has been overwritten).
C14_SingleHistoryRepairs ==
    (spc = "emit" /\ llm_response # <<>>) =>
        \A f \in {"species", "cell_line_name"} :
            Len(hint[f]) = 1 => parsed_data[f] = hint[f][1]

\* C15: when the study group's history of a field (species, cell_line_name)
\* holds two or more values, REPAIR leaves the parsed candidate of that field
\* as it is, and the record carries the backend's own answer.
C15_NoRepairUnderAmbiguity ==
    LET candidate == IF llm_response = <<>> THEN NoData
                     ELSE parse_llm_response(llm_response, ParserDefaults)
    IN \A f \in {"species", "cell_line_name"} :
          Len(hint[f]) >= 2 =>
             /\ spc = "emit" => parsed_data[f] = candidate[f]
             /\ (spc = "idle" /\ result = "row") =>
                   records[Len(records)][f] = candidate[f]

\* A third sample of a cell line study whose first two samples gave HeLa and
\* K562 comes without a cell line name and is emitted without one.
C15_Witness ==
    /\ spc = "idle"
    /\ result = "row"
    /\ Len(hint["cell_line_name"]) = 2
    /\ llm_response # <<>>
    /\ parse_llm_response(llm_response, ParserDefaults).sample_type = "Cell Line"
    /\ parse_llm_response(llm_response, ParserDefaults).cell_line_name = NA
    /\ records[Len(records)].cell_line_name = NA

\* C16: the study context is never shared across groups: the values of the
\* context mapping, of the hint given to the prompt and the stored summary were
\* all observed on samples of the current group emitted since the group key
\* last changed, and the counter counts no more than these samples and the one
\* at work.
C16_ContextWithinGroup ==
    LET n == Len(records)
        key == IF spc \in {"infer", "parse", "repair", "emit"}
               THEN extract_study_id(sample.id, extract_geo_accessions(sample.xml).gse)
               ELSE IF n = 0 THEN NoStudy ELSE records[n].study
        Run == {i \in 1..n : \A j \in i..n : records[j].study = key}
    IN /\ \A f \in ContextFields :
             /\ \A k \in 1..Len(study_context[f]) :
                   \E i \in Run : records[i][f] = study_context[f][k]
             /\ \A k \in 1..Len(hint[f]) :
                   \E i \in Run : records[i][f] = hint[f][k]
       /\ study_summary # 0 =>
             \E i \in Run : records[i].scientific_sample_summary = study_summary
       /\ study_sample_count <= Cardinality(Run) + 1

\* A sample of another group arrives after a sample that left a species, a
\* cell line and a summary behind: its prompt is built from an empty context.
C16_Witness ==
    /\ spc = "infer"
    /\ records # <<>>
    /\ records[Len(records)].study # current_study_id
    /\ records[Len(records)].species # NA
    /\ records[Len(records)].cell_line_name # NA
    /\ records[Len(records)].scientific_sample_summary # 0
    /\ hint = EmptyContext
    /\ study_context = EmptyContext
    /\ study_summary = 0
    /\ study_sample_count = 1

C19_ProseThenObjectAccepted ==
    (/\ spc \in {"repair", "emit"}
     /\ Len(llm_response) = 1
     /\ llm_response[1].key = "Sure! Here is the data") =>
        /\ parsed_data.sample_type = llm_response[1].value.sample_type
        /\ parsed_data.species # NA
        /\ parsed_data.cell_line_name # NA

\* C17: failures are contained: an exception raised for one identifier does
\* not stop the keyword (each call for an identifier but the keyword's last is
\* followed by the call for the keyword's next identifier), and an exception
\* escaping a keyword does not stop the run (when main's loop is over, it has
\* called stream_process_keyword for every keyword, in order).
C17_FailureContainment ==
    /\ \A j \in 1..Len(calls) :
          (calls[j].n < IdsPerKeyword /\ (j < Len(calls) \/ kpc # "ids")) =>
             /\ j < Len(calls)
             /\ calls[j + 1].kw = calls[j].kw
             /\ calls[j + 1].n = calls[j].n + 1
    /\ kpc = "completed" => kw_log = [k \in 1..NumKeywords |-> k]

\* The run is over; the first identifier of the first keyword raised, that
\* keyword's later identifiers were processed, the second keyword raised
\* before its loop and the last keyword's identifiers were processed.
C17_Witness ==
    /\ kpc = "completed"
    /\ \E j \in 1..Len(calls) :
          /\ calls[j] = [kw |-> 1, n |-> 1, outcome |-> "raised"]
          /\ calls[j + IdsPerKeyword - 1] = [kw |-> 1, n |-> IdsPerKeyword, outcome |-> "row"]
    /\ \A j \in 1..Len(calls) : calls[j].kw # 2
    /\ \E j \in 1..Len(calls) :
          calls[j] = [kw |-> NumKeywords, n |-> IdsPerKeyword, outcome |-> "row"]

\* C20: once the corpus file exists, read_runinfo_batches stops iterating only
\* when the download thread has ended and more than MAX_NO_CHANGE_CYCLES polls
\* in a row showed no growth; when that many polls showed no growth and the
\* thread is still running, the exit test sets the counter to 0 and the loop
\* goes on.
C20_StopsOnlyWhenThreadEnded ==
    [][/\ (tpc # "done" /\ tpc' = "done") =>
             /\ wpc = "done"
             /\ main_exists
             /\ no_change_cycles > MAX_NO_CHANGE_CYCLES
       /\ (/\ tpc = "check"
           /\ tpc' # "check"
           /\ no_change_cycles > MAX_NO_CHANGE_CYCLES
           /\ wpc # "done") =>
             /\ no_change_cycles' = 0
             /\ tpc' = "top"]_vars

\* The exit test is reached after more than MAX_NO_CHANGE_CYCLES polls without
\* growth while the worker is still polling its processes.
C20_Witness ==
    /\ tpc = "check"
    /\ main_exists
    /\ header_processed
    /\ no_change_cycles > MAX_NO_CHANGE_CYCLES
    /\ wpc \in {"loop", "sleep"}

\* C21: read_runinfo_batches consumes every data row of the corpus exactly
\* once while the corpus grows: no identifier is yielded more often than the
\* corpus has rows for it.
C21_RowsConsumedOnce ==
    \A k \in 1..Len(yielded) :
        Cardinality({i \in 1..Len(yielded) : yielded[i] = yielded[k]})
           <= Cardinality({j \in 1..Len(main_file) :
                              /\ main_file[j].kind = "row"
                              /\ main_file[j].id = yielded[k]})

\* C22: merges are append-only: a call of incremental_merge_from_temp on a
\* non-empty corpus leaves the existing lines in place (the corpus before is a
\* prefix of the corpus after), and a call that returns 0 (it failed or found
\* nothing new) leaves the corpus as it was; a call that failed returned 0.
C22_MergesAppendOnly ==
    [][mcall'.fresh =>
          /\ (main_exists /\ main_file # <<>>) =>
                /\ Len(main_file) <= Len(main_file')
                /\ SubSeq(main_file', 1, Len(main_file)) = main_file
          /\ mcall'.n = 0 => main_file' = main_file
          /\ mcall'.outcome # "written" => (mcall'.n = 0 /\ main_file' = main_file)]_vars

\* C23: an incremental-mode merge with offset k appends every row standing in
\* the scratch file from byte k onward (within the first 1000 lines examined)
\* whose identifier has a valid prefix and is not yet in the corpus, and no row
\* standing before byte k; for k = 0 and for k > 0 alike.
C23_IncrementalMergeAppendsNewRows ==
    [][(mcall'.fresh /\ ~mcall'.final /\ mcall'.outcome = "written") =>
          LET seen   == FirstN(LinesFrom(temp_file, mcall'.skip), IncrementalLineLimit)
              inCorpus(f, id) == \E j \in 1..Len(f) : f[j].kind = "row" /\ f[j].id = id
              added  == SubSeq(main_file', Len(main_file) + 1, Len(main_file'))
          IN /\ \A i \in 1..Len(seen) :
                   (/\ seen[i].kind = "row"
                    /\ ValidPrefix(seen[i].id)
                    /\ ~inCorpus(main_file, seen[i].id))
                   => inCorpus(main_file', seen[i].id)
             /\ \A j \in 1..Len(added) :
                   added[j].kind = "row" =>
                      \E i \in 1..Len(seen) : seen[i] = added[j]]_vars

\* C24: a final-mode merge of the whole scratch file never turns a line of a
\* markup block (from a line starting with '<?xml' up to and including the
\* following line starting with '</eFetchResult>') into a corpus row, and it
\* appends every row outside such blocks whose identifier has a valid prefix
\* and is not yet in the corpus and whose strategy is not excluded, wherever
\* the block stands.
C24_FinalMergeStripsMarkupKeepsData ==
    [][(mcall'.fresh /\ mcall'.final /\ mcall'.skip = 0 /\ mcall'.outcome = "written") =>
          LET n == Len(temp_file)
              InBlock(i) ==
                  \E a \in 1..i :
                     /\ temp_file[a].kind = "xml_open"
                     /\ \A c \in (a + 1)..(i - 1) : temp_file[c].kind # "xml_end"
                     /\ \E b \in i..n : b > a /\ temp_file[b].kind = "xml_end"
              inCorpus(f, id) == \E j \in 1..Len(f) : f[j].kind = "row" /\ f[j].id = id
              added == SubSeq(main_file', Len(main_file) + 1, Len(main_file'))
          IN /\ \A j \in 1..Len(added) :
                   added[j].kind = "row" =>
                      \E i \in 1..n : temp_file[i] = added[j] /\ ~InBlock(i)
             /\ \A i \in 1..n :
                   (/\ temp_file[i].kind = "row"
                    /\ ~InBlock(i)
                    /\ ValidPrefix(temp_file[i].id)
                    /\ temp_file[i].strat \notin EXCLUDED_LIBRARY_STRATEGIES
                    /\ ~inCorpus(main_file, temp_file[i].id))
                   => inCorpus(main_file', temp_file[i].id)]_vars

\* C25: a call of get_llm_for_study creates a fresh session exactly when the
\* group key of the sample differs from the current one or the current session
\* has served RefreshEvery (in the source: 30) samples of the same group; in
\* the second case the study context and the summary are kept; after the call
\* the counter lies between 1 and RefreshEvery.
C25_SessionRotation ==
    [][(spc = "context" /\ spc' = "infer") =>
          LET key == extract_study_id(sample.id, extract_geo_accessions(sample.xml).gse)
              differs == current_study_id # key
              served == ~differs /\ study_sample_count >= RefreshEvery
          IN /\ llm_instances' = llm_instances + (IF differs \/ served THEN 1 ELSE 0)
             /\ current_study_id' = key
             /\ served => (study_context' = study_context /\ study_summary' = study_summary)
             /\ study_sample_count' \in 1..RefreshEvery]_vars

\* The third sample of a group in a row: the session that served two samples
\* has been replaced, the counter starts again at 1, and the species and the
\* summary the group left behind are still there.
C25_Witness ==
    /\ spc = "infer"
    /\ Len(records) >= RefreshEvery
    /\ \A i \in (Len(records) - RefreshEvery + 1)..Len(records) :
          records[i].study = current_study_id
    /\ study_sample_count = 1
    /\ llm_instances = 2
    /\ study_context["species"] # <<>>
    /\ study_summary # 0

\* C26: update_study_context appends the value to the field's list exactly
\* when the value is not empty, is not "N/A" and is not yet in the list, and
\* otherwise leaves the list as it is; nothing is ever removed from a list and
\* no list holds a value twice, the empty value or "N/A".
C26_ContextUpdate ==
    [][(spc = "emit" /\ spc' = "idle") =>
          \A f \in ContextFields :
             LET old == study_context[f]
                 new == study_context'[f]
                 v   == parsed_data[f]
             IN /\ new = IF /\ v # ""
                            /\ v # NA
                            /\ \A i \in 1..Len(old) : old[i] # v
                         THEN Append(old, v)
                         ELSE old
                /\ \A i, j \in 1..Len(new) : new[i] = new[j] => i = j
                /\ \A i \in 1..Len(new) : new[i] \notin {"", NA}]_vars

\* Three samples of one group: the first left its species empty, the second
\* and the third are of another sample type than the first.  The empty value
\* was not appended, the second sample type was appended behind the first, and
\* the third sample added nothing.
C26_Witness ==
    /\ spc = "idle"
    /\ Len(records) = 3
    /\ \A i \in 1..3 : records[i].study = current_study_id
    /\ records[1].species = ""
    /\ records[2].sample_type # records[1].sample_type
    /\ records[3].sample_type = records[2].sample_type
    /\ records[3].species = records[2].species
    /\ study_context["species"] = <<records[2].species>>
    /\ study_context["sample_type"] = <<records[1].sample_type, records[2].sample_type>>

\* C27: PARSE tries its extractors in a fixed order on the response: the
\* whole response as one structured value, then the content of a fenced block,
\* then the largest well-formed structured span found in the text; the first
\* that succeeds gives the result, a failing one lets the next run, and when
\* none succeeds in any attempt the default value is returned.
C27_ExtractorsInOrder ==
    [][/\ (lpc = "got" /\ purpose # "Scientific Summary Generation") =>
             LET t == response_text
                 ok(c) == IsDict(c) \/ (purpose = "GEO Accessions Extraction" /\ IsList(c))
                 fences == {"fence_json", "fence"}
                 blocks == {b \in (1..Len(t)) \X (1..Len(t)) :
                               /\ b[1] < b[2]
                               /\ t[b[1]] = "fence_json"
                               /\ t[b[2]] = "fence"
                               /\ \A k \in (b[1] + 1)..(b[2] - 1) : t[k] \notin fences
                               /\ ok(SubSeq(t, b[1] + 1, b[2] - 1))}
                 spans == {b \in (1..Len(t)) \X (1..Len(t)) :
                               b[1] <= b[2] /\ ok(SubSeq(t, b[1], b[2]))}
                 first(S) == CHOOSE b \in S : \A o \in S : b[1] <= o[1]
                 largest == CHOOSE b \in spans : \A o \in spans :
                               \/ b[2] - b[1] > o[2] - o[1]
                               \/ (b[2] - b[1] = o[2] - o[1] /\ b[1] <= o[1])
                 expected ==
                     IF ok(t) THEN t
                     ELSE IF blocks # {}
                     THEN SubSeq(t, first(blocks)[1] + 1, first(blocks)[2] - 1)
                     ELSE IF spans # {} THEN SubSeq(t, largest[1], largest[2])
                     ELSE <<>>
                 returned(c) == IF IsList(c) THEN <<"obj">> ELSE c
             IN IF expected # <<>>
                THEN lpc' = "done"
                     /\ chain_result' = [kind |-> "json", value |-> returned(expected)]
                ELSE lpc' = "try" /\ attempt' = attempt + 1
       /\ (lpc = "try" /\ lpc' = "done") => chain_result' = Default(purpose)]_vars

C29_BoundedWaitForCorpus ==
    /\ [](tpc = "gave_up" => /\ wait_time = MaxWaitSeconds + 1
                             /\ ~main_exists
                             /\ yielded = <<>>
                             /\ batch = <<>>)
    /\ [](tpc = "wait" => wait_time <= MaxWaitSeconds)
    /\ (tpc = "wait" /\ wpc = "done" /\ ~main_exists) ~> (tpc = "gave_up")

\* The worker could not create the corpus file and has ended; the reader has
\* given up after its last second of waiting and its consumer has finished
\* without a sample.
C29_Witness ==
    /\ tpc = "gave_up"
    /\ wpc = "done"
    /\ mpc = "done"
    /\ ~main_exists
    /\ wait_time = MaxWaitSeconds + 1
    /\ yielded = <<>>

\* C30: the worker creates the corpus file, empty, as its first action: as
\* long as the file does not exist the worker has neither checked the tools
\* nor opened the scratch file nor launched a process, and when the creation
\* fails the worker ends there, with nothing launched.
C30_CorpusCreatedFirst ==
    /\ wpc \in {"idle", "create"} =>
          /\ efetch_proc = "none"
          /\ esearch_proc = "none"
          /\ ~degraded
          /\ ~temp_exists
          /\ ~main_exists
    /\ wpc = "tools" => (main_exists /\ main_file = <<>>)
    /\ ~main_exists =>
          /\ wpc \in {"idle", "create", "done"}
          /\ efetch_proc = "none"
          /\ esearch_proc = "none"
          /\ ~degraded
          /\ ~temp_exists

\* The tools are available, yet the worker has ended without a corpus file,
\* a scratch file or a process: the creation of the corpus file failed.
C30_Witness ==
    /\ NCBI_TOOLS_AVAILABLE
    /\ wpc = "done"
    /\ ~main_exists
    /\ ~temp_exists
    /\ efetch_proc = "none"
    /\ esearch_proc = "none"

C32_NoIdentifierTwice ==
    /\ rpc = "completed" =>
          \A i, j \in DOMAIN output_csv :
             (i # j /\ output_csv[i].kind = "row" /\ output_csv[j].kind = "row")
                => output_csv[i].id # output_csv[j].id
    /\ (rpc = "rows" /\ rki >= 2) =>
          /\ Len(preexisting.csv) <= Len(output_csv)
          /\ \A i \in DOMAIN preexisting.csv : output_csv[i] = preexisting.csv[i]

\* C36: after every run, whatever the append flag and whatever result file
\* the run found, a result file that holds anything begins with the header
\* row and has no other header row.
C36_ExactlyOneHeader ==
    (rpc = "completed" /\ output_exists /\ output_csv # <<>>) =>
       /\ output_csv[1] = OutHdr
       /\ \A i \in 2..Len(output_csv) : output_csv[i].kind # "hdr"

\* C33: the record emitted for a sample has one value for each column the
\* model follows, its identifier is the identifier process_single_srx was
\* called for, and a field the backend's answer has no line for holds "N/A"
\* (for the summary: "N/A" or the summary stored for the study group; for the
\* cell line name this is stated when the backend returned nothing).
C33_RecordCompleteOrNotAvailable ==
    (spc = "idle" /\ result = "row" /\ records # <<>>) =>
       LET r == records[Len(records)]
           supplied == {Lower(llm_response[k].key) : k \in {j \in DOMAIN llm_response : llm_response[j].colon}}
       IN /\ DOMAIN r = {"id", "gse", "gsm", "species", "sample_type", "cell_line_name", "is_chipseq_related_experiment", "scientific_sample_summary", "study"}
          /\ r.id = sample.id
          /\ \A f \in {"species", "sample_type", "is_chipseq_related_experiment"} : f \notin supplied => r[f] = NA
          /\ llm_response = <<>> => r.cell_line_name = NA
          /\ "scientific_sample_summary" \notin supplied => r.scientific_sample_summary \in {0, study_summary}

\* C34: every batch read_runinfo_batches yields is non-empty and holds at most
\* batch_size identifiers, and the identifiers yielded so far stand in the
\* order of the corpus rows they were read from, within a batch and from one
\* batch to the next.
C34_BatchesBoundedInRowOrder ==
    /\ [](\E pos \in [DOMAIN yielded -> DOMAIN main_file] :
            /\ \A i \in DOMAIN yielded : main_file[pos[i]].kind = "row" /\ main_file[pos[i]].id = yielded[i]
            /\ \A i, j \in DOMAIN yielded : i < j => pos[i] <= pos[j])
    /\ [][yielded' # yielded =>
            /\ Len(yielded') > Len(yielded)
            /\ Len(yielded') - Len(yielded) <= BatchSize
            /\ SubSeq(yielded', 1, Len(yielded)) = yielded
            /\ SubSeq(yielded', Len(yielded) + 1, Len(yielded')) = batch']_vars

\* C34 witness: a full batch is yielded in the middle of a cycle, after an
\* earlier batch, with identifiers of two different corpus rows in it.
C34_Witness ==
    /\ tpc = "yield_mid"
    /\ Len(batch) = BatchSize
    /\ batch[1] # batch[2]
    /\ Len(yielded) > BatchSize

\* C35: while samples go through process_single_srx (a fresh session per
\* study) the species list of the current study context never holds more than
\* one value: a species that is available and differs from the single stored
\* value has been overwritten with the stored value when the sample reaches
\* the update of the study context.
C35_SingleSpeciesPerStudy ==
    /\ Len(study_context["species"]) <= 1
    /\ (spc = "emit" /\ llm_response # <<>> /\ Len(study_context["species"]) = 1 /\ parsed_data.species # NA)
          => parsed_data.species = study_context["species"][1]

\* C35 witness: the second sample of a group reports another species than the
\* one stored for the group and is about to update the study context.
C35_Witness ==
    /\ spc = "emit"
    /\ samples_done >= 1
    /\ study_context["species"] = <<"Homo sapiens">>
    /\ parse_llm_response(llm_response, ParserDefaults).species = "Mus musculus"

\* C37: when the corpus file of an earlier run is at the path, the reader
\* yields only identifiers of rows the current run's download wrote, and the
\* row cursor and the file size it keeps were taken from the file the current
\* run's worker created, never from the stale one.
C37_NoStaleRows ==
    /\ \A i \in DOMAIN yielded : \E k \in DOMAIN efetched : efetched[k].kind = "row" /\ efetched[k].id = yielded[i]
    /\ wpc \notin {"idle", "create"} =>
          /\ last_file_size <= Size(main_file)
          /\ processed_rows <= Len(main_file)

\* C38: when the worker thread has ended after it created the corpus file,
\* the corpus file is not empty and its first row is a header with the
\* Experiment column, on whatever path the worker ended.
C38_CorpusEndsWithHeader ==
    (wpc = "done" /\ main_exists) => (main_file # <<>> /\ HasExperiment(main_file[1]))

\* C39: within one study group, once a summary other than "N/A" has been
\* emitted and stored, every later sample emitted before the group key
\* changes carries exactly that summary, whatever its own answer held; and a
\* stored summary changes only in a step that changes the group key.
C39_StudySummaryReused ==
    /\ [](\A i, j \in DOMAIN records :
            (/\ i < j
             /\ \A k \in i..j : records[k].study = records[i].study
             /\ records[i].scientific_sample_summary # 0)
               => records[j].scientific_sample_summary = records[i].scientific_sample_summary)
    /\ [][(study_summary # 0 /\ study_summary' # study_summary) => current_study_id' # current_study_id]_vars

\* C39 witness: the second sample of a group has just been emitted with the
\* summary stored from the first, while its own answer held another summary.
C39_Witness ==
    /\ spc = "idle"
    /\ Len(records) = 2
    /\ records[1].study = records[2].study
    /\ records[1].scientific_sample_summary # 0
    /\ records[2].scientific_sample_summary = records[1].scientific_sample_summary
    /\ parsed_data.scientific_sample_summary \notin {0, records[1].scientific_sample_summary}

====
